---- MODULE Spec2Model ----
(***************************************************************************)
(* Merge core of the go-git fork: merge-base walk (getCommonParents over   *)
(* the PriorityQueue), Myers differ, three-way file merger and the merge   *)
(* orchestrator (Merge / AbortMerge / Commit).                             *)
(***************************************************************************)
EXTENDS Integers, Sequences, FiniteSets, TLC

\* ------------------------------------------------------------------ bounds
MaxCommits == 3        \* commits of a generated history (merge-base walk)
MaxTime == 2           \* distinct author timestamps of a generated history
MaxEdits == 1          \* worktree edits made by the user in a run
MaxNewCommits == 1     \* commits created by Commit in a run
MaxLen == 3            \* lines of a file handed to the differ or file merger
MaxFaults == 1         \* Merge calls of a run in which a collaborator call fails
MaxRows == 3           \* rows inserted into the file table before NewFile stops
MaxDepth == 3          \* components of a path handed to the file storage
MaxRenames == 1        \* RenameFile calls of a run

\* --------------------------------------------------------------- constants
markNone == 1
markParent1 == 2
markParent2 == 4
markStale == 8
markResult == 16

VARIABLES
    commits,   \* object store: commit id -> [parents, when, tree]
    prQ,       \* the PriorityQueue of getCommonParents (heap array)
    res,       \* commits emitted so far by getCommonParents
    wpc,       \* position of the merge-base walk: "idle", "walking", "done"
    wOld,      \* first argument of getCommonParents
    wNew,      \* second argument of getCommonParents
    seen,      \* commit -> every flag it carried in the queue during the walk
    head,      \* commit of HEAD (the checked-out branch, master)
    topic,     \* commit of the branch topic
    idx,       \* the index: set of entries [name, hash, stage]
    wt,        \* the worktree: path -> lines of the file
    blobs,     \* Worktree.blobs, the blob cache: path -> list of blobInfo
    mergeHead, \* MERGE_HEAD: a commit or NoRef
    origHead,  \* ORIG_HEAD: a commit or NoRef
    mergeMsg,  \* MERGE_MSG: its lines, <<>> when absent
    ret,       \* the last call and what it returned
    log,       \* the writes of the last Merge call, in order
    pre,       \* the state when the last Merge was called
    inMerge,   \* the merge awaiting commit or abort: [valid, idx before it]
    lastRes,   \* the per-path merging results of the last Merge call
    lastInner, \* the paths that conflicted while the last Merge call built
               \* its virtual ancestor
    lastCalls, \* the computeParent calls of the last Merge call, in order:
               \* [old, new, bases found, nesting depth]
    edits,     \* worktree edits made so far
    born,      \* commits created so far
    fBase,     \* line sequences handed to the differ and the file merger:
    fA,        \*   base, a (ours), b (theirs)
    fB,
    fOut,      \* what the last differ or file-merger call returned
    fpc,       \* "idle", or the call that was made: "Diff", "Merge"
    faults,    \* Merge calls so far in which a collaborator call failed
    temps,     \* 'temp_*' files in the worktree directory
    fs,        \* the file table of the MySQL storage: [rows, nextID], a row is
               \* [id, parentID (0: NULL), name, path, isDir]
    fsRet      \* the last storage call: [op, from, to, err, rows before it,
               \* RenameFile calls so far]

mbVars == <<prQ, res, wpc, wOld, wNew, seen>>
repoVars == <<head, topic, idx, wt, blobs, mergeHead, origHead, mergeMsg,
              ret, log, pre, inMerge, lastRes, lastInner, lastCalls,
              edits, born>>
textVars == <<fBase, fA, fB, fOut, fpc>>
faultVars == <<faults, temps>>
fsVars == <<fs, fsRet>>
vars == <<commits, mbVars, repoVars, textVars, faultVars, fsVars>>

\* ------------------------------------------------------------ generic help
SeqToSet(s) == {s[i] : i \in 1..Len(s)}

\* F applied to x: x names the value of one call in the code that follows it
Bind(x, F(_)) == F(x)

Swap(q, i, j) == [q EXCEPT ![i] = q[j], ![j] = q[i]]

\* ------------------------------------------------------ PriorityQueue heap
\* pq[i].priority.After(pq[j].priority): newest first
Less(q, i, j) == q[i].priority > q[j].priority

\* container/heap up(): sift element j towards the root (1-based array)
RECURSIVE Up(_, _)
Up(q, j) ==
    IF j <= 1 THEN q
    ELSE LET i == j \div 2 IN
         IF ~Less(q, j, i) THEN q ELSE Up(Swap(q, i, j), i)

\* container/heap down(): sift element i towards the leaves, heap size n
RECURSIVE Down(_, _, _)
Down(q, i, n) ==
    LET j1 == 2 * i IN
    IF j1 > n THEN q
    ELSE LET j2 == j1 + 1
             j == IF j2 <= n /\ Less(q, j2, j1) THEN j2 ELSE j1
         IN IF ~Less(q, j, i) THEN q ELSE Down(Swap(q, i, j), j, n)

\* PriorityQueue.Push: OR the flags into the queued element with the same
\* hash, else append
PQPush(q, item) ==
    IF \E i \in 1..Len(q) : q[i].value = item.value
    THEN LET i == CHOOSE k \in 1..Len(q) :
                     /\ q[k].value = item.value
                     /\ \A m \in 1..(k - 1) : q[m].value # item.value
         IN [q EXCEPT ![i].flags = q[i].flags \cup item.flags]
    ELSE Append(q, item)

\* heap.Push(&prQ, x)
HeapPush(q, item) == LET q1 == PQPush(q, item) IN Up(q1, Len(q1))

\* heap.Pop(&prQ): the popped element and the remaining queue
HeapPopEl(q) == q[1]

HeapPopRest(q) ==
    LET n == Len(q)
        q1 == Down(Swap(q, 1, n), 1, n - 1)
    IN SubSeq(q1, 1, n - 1)

\* PriorityQueue.interesting
interesting(q) == \E i \in 1..Len(q) : markStale \notin q[i].flags

\* markCommit
markCommit(cs, c, flags) == [value |-> c, flags |-> flags, priority |-> cs[c].when]

\* getParents of a graph in which every commit is its own parent
getParentsCyclic(cs, c) == <<c>>

\* getParents
getParents(cs, c) == cs[c].parents

RECURSIVE PushAll(_, _, _, _)
PushAll(cs, q, ps, flags) ==
    IF ps = <<>> THEN q
    ELSE PushAll(cs, HeapPush(q, markCommit(cs, Head(ps), flags)), Tail(ps), flags)

\* seeding of the queue in getCommonParents
WalkSeed(cs, oldC, newC) ==
    HeapPush(HeapPush(<<>>, markCommit(cs, oldC, {markParent1})),
             markCommit(cs, newC, {markParent2}))

\* one iteration of the loop of getCommonParents
WalkStep(cs, q, r) ==
    LET el == HeapPopEl(q)
        q1 == HeapPopRest(q)
        f0 == el.flags \cap {markParent1, markParent2, markStale}
        isRes == f0 = {markParent1, markParent2}
        r1 == IF isRes /\ markResult \notin el.flags THEN Append(r, el.value) ELSE r
        flags == IF isRes THEN f0 \cup {markStale} ELSE f0
    IN [q |-> PushAll(cs, q1, getParents(cs, el.value), flags), res |-> r1]

RECURSIVE WalkLoop(_, _, _)
WalkLoop(cs, q, r) ==
    IF ~interesting(q) THEN r
    ELSE LET s == WalkStep(cs, q, r) IN WalkLoop(cs, s.q, s.res)

\* getCommonParents as a function
getCommonParents(cs, oldC, newC) == WalkLoop(cs, WalkSeed(cs, oldC, newC), <<>>)

\* ------------------------------------------------------------ Myers differ
fileDiffIns == 1
fileDiffDel == 2
fileDiffEql == 3

\* getIndexV
getIndexV(lenA, lenB, val) == val + (lenA + lenB)

\* v[i] of a Go slice of length Len(v): 0-based, panics outside 0..len-1
InRange(v, i) == i >= 0 /\ i < Len(v)
At(v, i) == v[i + 1]

\* the snake: follow equal lines from (x, x-k); returns the final x
RECURSIVE Snake(_, _, _, _)
Snake(a, b, x, k) ==
    LET y == x - k IN
    IF x < Len(a) /\ y < Len(b) /\ At(a, x) = At(b, y)
    THEN Snake(a, b, x + 1, k)
    ELSE x

\* the d/k loops of GetShortestPath; result [panic, trace]
RECURSIVE ShortestPathLoop(_, _, _, _, _, _)
ShortestPathLoop(a, b, d, k, v, trace) ==
    LET n == Len(a)
        m == Len(b)
        max == n + m
        i1 == getIndexV(n, m, k - 1)
        i2 == getIndexV(n, m, k + 1)
    IN
    IF d > max THEN [panic |-> FALSE, trace |-> <<>>]
    ELSE IF k > d THEN ShortestPathLoop(a, b, d + 1, -(d + 1), v, Append(trace, v))
    ELSE
      \* operands of v[i1] < v[i2] are read only when k # -d and k # d
      IF k # -d /\ k # d /\ ~(InRange(v, i1) /\ InRange(v, i2))
      THEN [panic |-> TRUE, trace |-> trace]
      ELSE
        LET down == k = -d \/ (k # d /\ At(v, i1) < At(v, i2))
            src == IF down THEN i2 ELSE i1
        IN
        IF ~InRange(v, src) THEN [panic |-> TRUE, trace |-> trace]
        ELSE
          LET x0 == IF down THEN At(v, src) ELSE At(v, src) + 1
              x == Snake(a, b, x0, k)
              y == x - k
              v1 == [v EXCEPT ![getIndexV(n, m, k) + 1] = x]
          IN
          IF x >= n /\ y >= m
          THEN [panic |-> FALSE, trace |-> Append(trace, v1)]
          ELSE ShortestPathLoop(a, b, d, k + 2, v1, trace)

\* GetShortestPath
GetShortestPath(a, b) ==
    LET vLen == 2 * (Len(a) + Len(b)) + 1
    IN ShortestPathLoop(a, b, 0, 0, [i \in 1..vLen |-> 0], <<>>)

\* the diagonal steps sent by Backtrack while x > prevX and y > prevY
RECURSIVE BacktrackSnake(_, _, _, _)
BacktrackSnake(x, y, prevX, prevY) ==
    IF x > prevX /\ y > prevY
    THEN <<[x |-> x, y |-> y, prevX |-> x - 1, prevY |-> y - 1]>>
         \o BacktrackSnake(x - 1, y - 1, prevX, prevY)
    ELSE <<>>

\* the loop of Backtrack over the reversed trace; result [panic, els]
RECURSIVE BacktrackLoop(_, _, _, _, _, _)
BacktrackLoop(lenA, lenB, trace, i, x, y) ==
    LET trLen == Len(trace) IN
    IF i >= trLen THEN [panic |-> FALSE, els |-> <<>>]
    ELSE
      LET d == trLen - i - 1
          v == trace[d + 1]
          k == x - y
          j1 == getIndexV(lenA, lenB, k - 1)
          j2 == getIndexV(lenA, lenB, k + 1)
      IN
      IF k # -d /\ k # d /\ ~(InRange(v, j1) /\ InRange(v, j2))
      THEN [panic |-> TRUE, els |-> <<>>]
      ELSE
        LET prevK == IF k = -d \/ (k # d /\ At(v, j1) < At(v, j2)) THEN k + 1 ELSE k - 1
            j == getIndexV(lenA, lenB, prevK)
        IN
        IF ~InRange(v, j) THEN [panic |-> TRUE, els |-> <<>>]
        ELSE
          LET prevX == At(v, j)
              prevY == prevX - prevK
              sn == BacktrackSnake(x, y, prevX, prevY)
              x1 == x - Len(sn)
              y1 == y - Len(sn)
              step == IF d > 0
                      THEN <<[x |-> x1, y |-> y1, prevX |-> prevX, prevY |-> prevY]>>
                      ELSE <<>>
              rest == BacktrackLoop(lenA, lenB, trace, i + 1, prevX, prevY)
          IN [panic |-> rest.panic, els |-> sn \o step \o rest.els]

\* Backtrack: the elements in the order they are sent on the channel
Backtrack(a, b, trace) == BacktrackLoop(Len(a), Len(b), trace, 0, Len(a), Len(b))

\* one fileDiff of Diff: line numbers are the 0-based indexes, -1 for a nil line
fileDiffOf(lenA, lenB, el) ==
    IF el.x = el.prevX
    THEN [diffType |-> fileDiffIns, lineA |-> -1, lineB |-> el.prevY]
    ELSE IF el.y = el.prevY
    THEN [diffType |-> fileDiffDel, lineA |-> el.prevX, lineB |-> -1]
    ELSE [diffType |-> fileDiffEql, lineA |-> el.prevX, lineB |-> el.prevY]

\* Diff; result [panic, diff]; a line read at a negative index panics
Diff(a, b) ==
    Bind(GetShortestPath(a, b), LAMBDA sp :
    Bind(IF sp.panic THEN [panic |-> TRUE, els |-> <<>>] ELSE Backtrack(a, b, sp.trace),
         LAMBDA bt :
        [panic |-> bt.panic
                     \/ \E i \in 1..Len(bt.els) : bt.els[i].prevX < 0 \/ bt.els[i].prevY < 0,
         diff |-> [i \in 1..Len(bt.els) |-> fileDiffOf(Len(a), Len(b), bt.els[i])]]))

\* ------------------------------------------------- three-way file merger
delimStart == "<<<<<<< yours"
delimMiddle == "======="
delimEnd == ">>>>>>> theirs"

\* getMatches: base line number -> other line number, for the Eql ops; a
\* later op for the same base line overwrites an earlier one
getMatches(fd) ==
    LET eql == {i \in 1..Len(fd) : fd[i].diffType = fileDiffEql}
        keys == {fd[i].lineA : i \in eql}
        last(n) == CHOOSE i \in eql :
                       /\ fd[i].lineA = n
                       /\ \A j \in eql : fd[j].lineA = n => j <= i
    IN [n \in keys |-> fd[last(n)].lineB]

\* isInBounds
isInBounds(base, a, b, i, lineBase, lineA, lineB) ==
    (lineBase + i) <= Len(base) \/ (lineA + i) <= Len(a) \/ (lineB + i) <= Len(b)

\* isMatch
isMatch(matches, lineBase, offset, i) ==
    IF (lineBase + i) \notin DOMAIN matches THEN FALSE
    ELSE matches[lineBase + i] = offset + i

\* the scan of getNextMismatch: first i that is out of bounds or not a
\* match on both sides
RECURSIVE MismatchScan(_, _, _, _, _, _, _, _, _)
MismatchScan(base, a, b, mA, mB, lineBase, lineA, lineB, i) ==
    IF /\ isInBounds(base, a, b, i, lineBase, lineA, lineB)
       /\ isMatch(mA, lineBase, lineA, i)
       /\ isMatch(mB, lineBase, lineB, i)
    THEN MismatchScan(base, a, b, mA, mB, lineBase, lineA, lineB, i + 1)
    ELSE i

\* getNextMismatch that reports a mismatch at the cursor every time
getNextMismatchAtCursor(base, a, b, mA, mB, lineBase, lineA, lineB) == 0

\* getNextMismatch
getNextMismatch(base, a, b, mA, mB, lineBase, lineA, lineB) ==
    LET i == MismatchScan(base, a, b, mA, mB, lineBase, lineA, lineB, 0)
    IN IF isInBounds(base, a, b, i, lineBase, lineA, lineB) THEN i ELSE -1

\* getNextMatch: the first base line from lineBase on that is matched on
\* both sides, or nil
NoMatch == [baseIndex |-> -1, aIndex |-> -1, bIndex |-> -1]

\* getNextMatch that never finds a line matched on both sides
getNextMatchNil(base, mA, mB, lineBase) == NoMatch

getNextMatch(base, mA, mB, lineBase) ==
    LET cand == {n \in lineBase..(Len(base) - 1) : n \in DOMAIN mA /\ n \in DOMAIN mB}
    IN IF cand = {} THEN NoMatch
       ELSE LET n == CHOOSE x \in cand : \A z \in cand : x <= z
            IN [baseIndex |-> n, aIndex |-> mA[n], bIndex |-> mB[n]]

\* s[from .. to-1] of a Go slice (0-based), empty when from >= to
Block(s, from, to) == IF from >= to THEN <<>> ELSE SubSeq(s, from + 1, to)

\* isBlockEqual
isBlockEqual(blA, blB) ==
    /\ Len(blA) = Len(blB)
    /\ \A i \in 1..Len(blA) : blA[i] = blB[i]

\* writeBlockToFile
writeBlockToFile(bl) == bl

\* writeConflictToFile with the two sides written in the other order
writeConflictToFileSwapped(ours, theirs) ==
    IF Len(ours) = 0 /\ Len(theirs) = 0 THEN <<>>
    ELSE <<delimStart>> \o theirs \o <<delimMiddle>> \o ours \o <<delimEnd>>

\* writeConflictToFile
writeConflictToFile(ours, theirs) ==
    IF Len(ours) = 0 /\ Len(theirs) = 0 THEN <<>>
    ELSE <<delimStart>> \o ours \o <<delimMiddle>> \o theirs \o <<delimEnd>>

\* the lines of a side collected into notEql by writeChunk: the lines read
\* next to a base line that differ from it, and every line read after the
\* base range is exhausted
NotEqlCount(base, side, fromBase, toBase, fromS, toS) ==
    LET lenBase == IF toBase > fromBase THEN toBase - fromBase ELSE 0
        lenS == IF toS > fromS THEN toS - fromS ELSE 0
        paired == IF lenBase < lenS THEN lenBase ELSE lenS
    IN Cardinality({i \in 0..(paired - 1) : At(base, fromBase + i) # At(side, fromS + i)})
       + (lenS - paired)

\* writeChunk; result [out, conflicts]
writeChunk(base, a, b, from, to) ==
    LET blockA == Block(a, from.aIndex, to.aIndex)
        blockB == Block(b, from.bIndex, to.bIndex)
        notEqlA == NotEqlCount(base, a, from.baseIndex, to.baseIndex, from.aIndex, to.aIndex)
        notEqlB == NotEqlCount(base, b, from.baseIndex, to.baseIndex, from.bIndex, to.bIndex)
        lenBase == to.baseIndex - from.baseIndex
        lenA == to.aIndex - from.aIndex
        lenB == to.bIndex - from.bIndex
        isEqlA == \/ (lenBase < 1 /\ lenA < 1)
                  \/ (lenBase = lenA /\ from.aIndex # to.aIndex /\ notEqlA = 0)
        isEqlB == \/ (lenBase < 1 /\ lenB < 1)
                  \/ (lenBase = lenB /\ from.bIndex # to.bIndex /\ notEqlB = 0)
        areBothEmpty == from.aIndex >= to.aIndex /\ from.bIndex >= to.bIndex
    IN
    IF isEqlA /\ isEqlB THEN [out |-> writeBlockToFile(blockA), conflicts |-> 0]
    ELSE IF isEqlA THEN [out |-> writeBlockToFile(blockB), conflicts |-> 0]
    ELSE IF isEqlB THEN [out |-> writeBlockToFile(blockA), conflicts |-> 0]
    ELSE IF areBothEmpty THEN [out |-> <<>>, conflicts |-> 0]
    ELSE IF isBlockEqual(blockA, blockB)
    THEN [out |-> writeBlockToFile(blockA), conflicts |-> 0]
    ELSE [out |-> writeConflictToFile(blockA, blockB), conflicts |-> 1]

\* emitFinalChunk: the range up to the end of the three files
FinalTo(base, a, b) == [baseIndex |-> Len(base), aIndex |-> Len(a), bIndex |-> Len(b)]

\* the loop of writeChunks; fuel bounds the iterations explored, a loop
\* that outlives it is reported as hang
\* result [hang, out, conflicts, chunks]
RECURSIVE ChunksLoop(_, _, _, _, _, _, _, _, _, _)
ChunksLoop(base, a, b, mA, mB, cur, out, conflicts, chunks, fuel) ==
    IF fuel = 0 THEN [hang |-> TRUE, out |-> out, conflicts |-> conflicts, chunks |-> chunks]
    ELSE
    Bind(getNextMismatch(base, a, b, mA, mB, cur.baseIndex, cur.aIndex, cur.bIndex),
         LAMBDA i :
    Bind(IF i = 0 THEN getNextMatch(base, mA, mB, cur.baseIndex)
         ELSE [baseIndex |-> cur.baseIndex + i,
               aIndex |-> cur.aIndex + i,
               bIndex |-> cur.bIndex + i],
         LAMBDA match :
    Bind((i = 0 /\ match = NoMatch) \/ i = -1, LAMBDA final :
    Bind(IF final THEN FinalTo(base, a, b) ELSE match, LAMBDA to :
    Bind(writeChunk(base, a, b, cur, to), LAMBDA w :
        IF final
        THEN [hang |-> FALSE, out |-> out \o w.out, conflicts |-> conflicts + w.conflicts,
              chunks |-> Append(chunks, [from |-> cur, to |-> to])]
        ELSE ChunksLoop(base, a, b, mA, mB, to, out \o w.out, conflicts + w.conflicts,
                        Append(chunks, [from |-> cur, to |-> to]), fuel - 1))))))

\* writeChunks after setup; result [panic, hang, out, conflicts, chunks]
writeChunks(base, a, b) ==
    Bind(Diff(base, a), LAMBDA dA :
    Bind(Diff(base, b), LAMBDA dB :
        IF dA.panic \/ dB.panic
        THEN [panic |-> TRUE, hang |-> FALSE, out |-> <<>>, conflicts |-> 0, chunks |-> <<>>]
        ELSE Bind(ChunksLoop(base, a, b, getMatches(dA.diff), getMatches(dB.diff),
                             [baseIndex |-> 0, aIndex |-> 0, bIndex |-> 0], <<>>, 0, <<>>,
                             2 * (Len(base) + Len(a) + Len(b)) + 4),
                  LAMBDA r : [panic |-> FALSE, hang |-> r.hang, out |-> r.out,
                              conflicts |-> r.conflicts, chunks |-> r.chunks])))

\* ------------------------------------------------------- index and trees
Merged == 0
AncestorMode == 1
OurMode == 2
TheirMode == 3

Paths == {"f", "g"}

\* a blob is its sequence of lines; its hash is modelled by the content
\* itself (content addressing), ZeroHash by a value no content equals
ZeroHash == <<"0000000">>

NoErr == "nil"
NoRef == 0

\* the index entries a tree checks out: one Merged entry per file
EntriesOfTree(t) == {[name |-> p, hash |-> t[p], stage |-> Merged] : p \in DOMAIN t}

\* index.Entry(path): the entries of a path
EntriesOf(ix, path) == {e \in ix : e.name = path}

\* the index read as a tree (mindex.NewRootNode): one node per path, the
\* entry of lowest stage
IndexAsTree(ix) ==
    [p \in {e.name : e \in ix} |->
        (CHOOSE e \in EntriesOf(ix, p) : \A o \in EntriesOf(ix, p) : e.stage <= o.stage).hash]

\* Storer.SetIndex; the log records an index mutation when the content changes
SetIndex(st, ix) ==
    IF ix = st.idx THEN st
    ELSE [st EXCEPT !.idx = ix, !.log = Append(@, "index")]

\* worktree.resetIndex(t): the index becomes the entries of tree t
resetIndex(st, t) == SetIndex(st, EntriesOfTree(t))

\* Filesystem write of a whole file (create + write + rename over path)
WriteFile(st, path, content, kind) ==
    [st EXCEPT !.wt = [q \in DOMAIN st.wt \cup {path} |->
                          IF q = path THEN content ELSE st.wt[q]],
               !.log = Append(@, kind)]

\* Filesystem.Remove
RemoveFile(st, path) ==
    IF path \notin DOMAIN st.wt THEN st
    ELSE [st EXCEPT !.wt = [q \in DOMAIN st.wt \ {path} |-> st.wt[q]],
                    !.log = Append(@, "wt")]

\* Worktree.Add(path): stage the worktree file as the single Merged entry
\* of the path; a file missing from the worktree is dropped from the index
WorktreeAdd(st, path) ==
    LET others == {e \in st.idx : e.name # path}
    IN IF path \in DOMAIN st.wt
       THEN SetIndex(st, others \cup {[name |-> path, hash |-> st.wt[path], stage |-> Merged]})
       ELSE SetIndex(st, others)

\* Worktree.Remove(path): delete from index and worktree
WorktreeRemove(st, path) ==
    IF EntriesOf(st.idx, path) = {} THEN [st EXCEPT !.err = "ErrEntryNotFound"]
    ELSE RemoveFile(SetIndex(st, {e \in st.idx : e.name # path}), path)

\* the entries addConflictFile records for a path: one per side whose
\* hash is not the zero hash, at the side's stage
ConflictEntriesFor(path, base, ours, theirs) ==
    {[name |-> path, hash |-> h[1], stage |-> h[2]] :
        h \in {x \in {<<base, AncestorMode>>, <<ours, OurMode>>, <<theirs, TheirMode>>} :
                  x[1] # ZeroHash}}

\* addConflictFile(idx, path, base, ours, theirs): works on the index
\* object it is handed, the copy decoded by Storer.Index() at the start of
\* compareCommitsChanges (filesystem storer), and stores it
addConflictFile(st, path, base, ours, theirs) ==
    LET src == st.oursIdx
        new == {e \in src : e.name # path} \cup ConflictEntriesFor(path, base, ours, theirs)
    IN [SetIndex(st, new) EXCEPT !.oursIdx = new]

\* Tree diff (merkletrie.DiffTree) folded into the status maps built by
\* compareCommitsChanges: path -> Added / Modified / Deleted
Statuses(from, to) ==
    [p \in {q \in DOMAIN from \cup DOMAIN to :
               q \notin DOMAIN from \/ q \notin DOMAIN to \/ from[q] # to[q]} |->
        IF p \notin DOMAIN to THEN "Deleted"
        ELSE IF p \notin DOMAIN from THEN "Added"
        ELSE "Modified"]

\* ------------------------------------------------------ merge orchestrator
mergeDiffNoConflict == 1
mergeDiffBothModifiedWithConflicts == 2
mergeDiffBothModifiedWithoutConflicts == 3
mergeDiffBothAdded == 4
mergeDiffBothDeleted == 5
mergeDiffModifiedDeleted == 6
mergeDiffDeletedModified == 7

NoStatus == "-"


ConflictTypes ==
    {mergeDiffBothAdded, mergeDiffBothModifiedWithConflicts, mergeDiffModifiedDeleted,
     mergeDiffDeletedModified}

\* a mergingCommit; idx is the snapshot taken for a virtual one
MergingCommit(c) == [commit |-> c, idx |-> {}, isVirtual |-> FALSE]

\* the index a virtual mergingCommit carries: the copy decoded by
\* Storer.Index() when createVirtualParent returned
IdxOfCommit(st, mc) == mc.idx

\* getBlob; result [err, blob]
getBlob(cs, st, mc, path) ==
    LET fromCommit ==
            IF path \in DOMAIN cs[mc.commit].tree
            THEN [err |-> NoErr, blob |-> cs[mc.commit].tree[path]]
            ELSE [err |-> "ErrFileNotFound", blob |-> <<>>]
    IN
    IF mc.isVirtual
    THEN LET entries == EntriesOf(IdxOfCommit(st, mc), path)
             usable == {e \in entries : e.stage = Merged \/ e.stage = OurMode}
         IN IF entries = {} THEN fromCommit
            ELSE IF usable = {} THEN [err |-> "ErrObjectNotFound", blob |-> <<>>]
            ELSE [err |-> NoErr,
                  blob |-> (CHOOSE e \in usable : \A o \in usable : e.stage <= o.stage).hash]
    ELSE fromCommit

\* addOrUpdateBlobToCache that appends without looking for the stage
addOrUpdateBlobToCacheAppends(cache, path, b, stage) ==
    IF path \notin DOMAIN cache
    THEN [q \in DOMAIN cache \cup {path} |->
             IF q = path THEN <<[path |-> path, stage |-> stage, blob |-> b]>> ELSE cache[q]]
    ELSE [cache EXCEPT ![path] = Append(@, [path |-> path, stage |-> stage, blob |-> b])]

\* addOrUpdateBlobToCache
addOrUpdateBlobToCache(cache, path, b, stage) ==
    IF path \notin DOMAIN cache
    THEN [q \in DOMAIN cache \cup {path} |->
             IF q = path THEN <<[path |-> path, stage |-> stage, blob |-> b]>> ELSE cache[q]]
    ELSE IF \E i \in 1..Len(cache[path]) : cache[path][i].stage = stage
    THEN LET i == CHOOSE k \in 1..Len(cache[path]) :
                     /\ cache[path][k].stage = stage
                     /\ \A m \in 1..(k - 1) : cache[path][m].stage # stage
         IN [cache EXCEPT ![path][i].blob = b]
    ELSE [cache EXCEPT ![path] = Append(@, [path |-> path, stage |-> stage, blob |-> b])]

\* a failing collaborator call: st.fault names the call of the running
\* Merge that fails (NoFault: none does); the call returns ErrCollaborator
NoFault == "none"
ErrCollaborator == "ErrCollaborator"
Faults == {"MergeHead", "diff", "innerDiff", "SetMergeHead", "SetOrigHead", "outerDiff",
           "Write", "Close", "Rename", "SetMergeMsg"}

\* the failing call was reached
Hit(st) == [st EXCEPT !.faulted = TRUE]

\* the failing call was reached and its error is returned
Broken(st) == [st EXCEPT !.faulted = TRUE, !.err = ErrCollaborator]

\* a 'temp_*' file stays behind
Leak(st) == [st EXCEPT !.temps = @ + 1]

Cache(st, path, b, stage) ==
    [st EXCEPT !.blobs = addOrUpdateBlobToCache(@, path, b, stage)]

\* mergeFiles (with diff3.Merge); result [st, conflicts]
mergeFiles(st, path, baseB, oursB, theirsB) ==
    Bind(writeChunks(baseB, oursB, theirsB), LAMBDA m :
        IF m.panic \/ m.hang
        THEN [st |-> [st EXCEPT !.err = "panic"], conflicts |-> 0]
        \* a Write in writeChunks fails: diff3.Merge closes and removes the temp
        ELSE IF st.fault = "Write" /\ m.out # <<>>
        THEN [st |-> Broken(st), conflicts |-> 0]
        \* temp.Close fails: diff3.Merge returns, the temp stays
        ELSE IF st.fault = "Close"
        THEN [st |-> Leak(Broken(st)), conflicts |-> 0]
        \* Filesystem.Rename fails: mergeFiles returns, the temp stays
        ELSE IF st.fault = "Rename"
        THEN [st |-> Leak(Broken(st)), conflicts |-> 0]
        ELSE IF m.conflicts # 0
        THEN [st |-> addConflictFile(WriteFile(st, path, m.out, "marker"),
                                     path, baseB, oursB, theirsB),
              conflicts |-> m.conflicts]
        ELSE [st |-> WorktreeAdd(WriteFile(st, path, m.out, "wt"), path), conflicts |-> 0])

\* writeBothAddedConflictFile
writeBothAddedConflictFile(st, path, oursB, theirsB) ==
    \* the Write of the start marker or the Rename fails: returned at once,
    \* the temp stays
    IF st.fault \in {"Write", "Rename"} THEN Leak(Broken(st))
    ELSE WriteFile(st, path,
                   <<delimStart>> \o oursB \o <<delimMiddle>> \o theirsB \o <<delimEnd>>,
                   "marker")

\* copyFileToOurs without the final Add: the file is written, not staged
copyFileToOursNoStage(cs, st, path, theirsC) ==
    IF path \notin DOMAIN cs[theirsC].tree THEN [st EXCEPT !.err = "ErrFileNotFound"]
    ELSE WriteFile(st, path, cs[theirsC].tree[path], "wt")

\* copyFileToOurs
copyFileToOurs(cs, st, path, theirsC) ==
    IF path \notin DOMAIN cs[theirsC].tree THEN [st EXCEPT !.err = "ErrFileNotFound"]
    ELSE WorktreeAdd(WriteFile(st, path, cs[theirsC].tree[path], "wt"), path)

mergingResult(s1, s2, dt) == [oursStatus |-> s1, theirsStatus |-> s2, diffType |-> dt]

Fail(st, e) == [st EXCEPT !.err = e]

\* compareCommitsChanges, a path with a status on both sides, both Modified
BothModified(cs, st, ours, theirs, path) ==
    Bind(getBlob(cs, st, ours.base, path), LAMBDA gb :
    IF gb.err # NoErr THEN [st |-> Fail(st, gb.err), r |-> <<>>] ELSE
    Bind(Cache(st, path, gb.blob, AncestorMode), LAMBDA st1 :
    Bind(getBlob(cs, st1, ours.commit, path), LAMBDA go :
    IF go.err # NoErr THEN [st |-> Fail(st1, go.err), r |-> <<>>] ELSE
    Bind(Cache(st1, path, go.blob, OurMode), LAMBDA st2 :
    Bind(getBlob(cs, st2, theirs.commit, path), LAMBDA gt :
    IF gt.err # NoErr THEN [st |-> Fail(st2, gt.err), r |-> <<>>] ELSE
    Bind(mergeFiles(Cache(st2, path, gt.blob, TheirMode), path, gb.blob, go.blob, gt.blob),
         LAMBDA mr :
        [st |-> mr.st,
         r |-> mergingResult("Modified", "Modified",
                   IF mr.conflicts = 0 THEN mergeDiffBothModifiedWithoutConflicts
                   ELSE mergeDiffBothModifiedWithConflicts)]))))))

\* both Added, taking the file as it is when both sides added the same
\* content
BothAddedSameIsClean(cs, st, ours, theirs, path) ==
    Bind(getBlob(cs, st, ours.commit, path), LAMBDA go :
    IF go.err # NoErr THEN [st |-> Fail(st, go.err), r |-> <<>>] ELSE
    Bind(Cache(st, path, go.blob, OurMode), LAMBDA st1 :
    Bind(getBlob(cs, st1, theirs.commit, path), LAMBDA gt :
    IF gt.err # NoErr THEN [st |-> Fail(st1, gt.err), r |-> <<>>]
    ELSE IF go.blob = gt.blob
    THEN [st |-> st1, r |-> mergingResult("Added", "Added", mergeDiffNoConflict)] ELSE
    Bind(writeBothAddedConflictFile(Cache(st1, path, gt.blob, TheirMode),
                                    path, go.blob, gt.blob),
         LAMBDA w :
    IF w.err # NoErr THEN [st |-> w, r |-> <<>>] ELSE
        [st |-> addConflictFile(w, path, ZeroHash, go.blob, gt.blob),
         r |-> mergingResult("Added", "Added", mergeDiffBothAdded)]))))

\* both Added
BothAdded(cs, st, ours, theirs, path) ==
    Bind(getBlob(cs, st, ours.commit, path), LAMBDA go :
    IF go.err # NoErr THEN [st |-> Fail(st, go.err), r |-> <<>>] ELSE
    Bind(Cache(st, path, go.blob, OurMode), LAMBDA st1 :
    Bind(getBlob(cs, st1, theirs.commit, path), LAMBDA gt :
    IF gt.err # NoErr THEN [st |-> Fail(st1, gt.err), r |-> <<>>] ELSE
    Bind(writeBothAddedConflictFile(Cache(st1, path, gt.blob, TheirMode),
                                    path, go.blob, gt.blob),
         LAMBDA w :
    IF w.err # NoErr THEN [st |-> w, r |-> <<>>] ELSE
        [st |-> addConflictFile(w, path, ZeroHash, go.blob, gt.blob),
         r |-> mergingResult("Added", "Added", mergeDiffBothAdded)]))))

\* ours Modified, theirs Deleted, recording ours' blob in theirs' slot too
ModifiedDeletedStagesTheirs(cs, st, ours, theirs, path) ==
    Bind(getBlob(cs, st, ours.base, path), LAMBDA gb :
    IF gb.err # NoErr THEN [st |-> Fail(st, gb.err), r |-> <<>>] ELSE
    Bind(Cache(st, path, gb.blob, AncestorMode), LAMBDA st1 :
    Bind(getBlob(cs, st1, ours.commit, path), LAMBDA go :
    IF go.err # NoErr THEN [st |-> Fail(st1, go.err), r |-> <<>>] ELSE
        [st |-> addConflictFile(Cache(st1, path, go.blob, OurMode),
                                path, gb.blob, go.blob, go.blob),
         r |-> mergingResult("Modified", "Deleted", mergeDiffModifiedDeleted)])))

\* ours Modified, theirs Deleted
ModifiedDeleted(cs, st, ours, theirs, path) ==
    Bind(getBlob(cs, st, ours.base, path), LAMBDA gb :
    IF gb.err # NoErr THEN [st |-> Fail(st, gb.err), r |-> <<>>] ELSE
    Bind(Cache(st, path, gb.blob, AncestorMode), LAMBDA st1 :
    Bind(getBlob(cs, st1, ours.commit, path), LAMBDA go :
    IF go.err # NoErr THEN [st |-> Fail(st1, go.err), r |-> <<>>] ELSE
        [st |-> addConflictFile(Cache(st1, path, go.blob, OurMode),
                                path, gb.blob, go.blob, ZeroHash),
         r |-> mergingResult("Modified", "Deleted", mergeDiffModifiedDeleted)])))

\* ours Deleted, theirs Modified
DeletedModified(cs, st, ours, theirs, path) ==
    Bind(getBlob(cs, st, ours.base, path), LAMBDA gb :
    IF gb.err # NoErr THEN [st |-> Fail(st, gb.err), r |-> <<>>] ELSE
    Bind(Cache(st, path, gb.blob, AncestorMode), LAMBDA st1 :
    Bind(getBlob(cs, st1, theirs.commit, path), LAMBDA gt :
    IF gt.err # NoErr THEN [st |-> Fail(st1, gt.err), r |-> <<>>] ELSE
        [st |-> addConflictFile(Cache(st1, path, gt.blob, TheirMode),
                                path, gb.blob, ZeroHash, gt.blob),
         r |-> mergingResult("Deleted", "Modified", mergeDiffDeletedModified)])))

\* compareCommitsChanges, the body of the first loop for one path of
\* statuses1; result [st, r]
OursPath(cs, st, ours, theirs, path) ==
    LET s1 == ours.changes[path]
        s2 == IF path \in DOMAIN theirs.changes THEN theirs.changes[path] ELSE NoStatus
        plain == [st |-> st, r |-> mergingResult(s1, s2, mergeDiffNoConflict)]
    IN
    IF s2 = NoStatus THEN plain
    ELSE IF s1 = s2
    THEN CASE s1 = "Modified" -> BothModified(cs, st, ours, theirs, path)
           [] s1 = "Added" -> BothAdded(cs, st, ours, theirs, path)
           [] OTHER -> plain
    ELSE CASE s1 = "Modified" /\ s2 = "Deleted" -> ModifiedDeleted(cs, st, ours, theirs, path)
           [] s1 = "Deleted" /\ s2 = "Modified" -> DeletedModified(cs, st, ours, theirs, path)
           [] OTHER -> plain

\* the body of the second loop for one path of statuses2 that is not in
\* statuses1; result [st, r]
TheirsPath(cs, st, theirs, path) ==
    LET s2 == theirs.changes[path]
        st1 == IF s2 = "Deleted" THEN WorktreeRemove(st, path)
               ELSE copyFileToOurs(cs, st, path, theirs.commit.commit)
    IN [st |-> st1, r |-> mergingResult(NoStatus, s2, mergeDiffNoConflict)]

WithResult(resMap, path, r) ==
    [q \in DOMAIN resMap \cup {path} |-> IF q = path THEN r ELSE resMap[q]]

\* the two loops, visiting the paths in the map iteration order ord
\* result [st, res]
RECURSIVE OursLoop(_, _, _, _, _, _)
OursLoop(cs, st, ours, theirs, ord, resMap) ==
    IF ord = <<>> \/ st.err # NoErr THEN [st |-> st, res |-> resMap]
    ELSE IF Head(ord) \notin DOMAIN ours.changes
    THEN OursLoop(cs, st, ours, theirs, Tail(ord), resMap)
    ELSE Bind(OursPath(cs, st, ours, theirs, Head(ord)), LAMBDA h :
             OursLoop(cs, h.st, ours, theirs, Tail(ord),
                      IF h.st.err # NoErr THEN resMap
                      ELSE WithResult(resMap, Head(ord), h.r)))

RECURSIVE TheirsLoop(_, _, _, _, _, _)
TheirsLoop(cs, st, ours, theirs, ord, resMap) ==
    IF ord = <<>> \/ st.err # NoErr THEN [st |-> st, res |-> resMap]
    ELSE IF Head(ord) \notin DOMAIN theirs.changes \/ Head(ord) \in DOMAIN ours.changes
    THEN TheirsLoop(cs, st, ours, theirs, Tail(ord), resMap)
    ELSE Bind(TheirsPath(cs, st, theirs, Head(ord)), LAMBDA h :
             TheirsLoop(cs, h.st, ours, theirs, Tail(ord),
                        IF h.st.err # NoErr THEN resMap
                        ELSE WithResult(resMap, Head(ord), h.r)))

\* compareCommitsChanges; ours, theirs are mergingChanges [base, commit, changes]
compareCommitsChanges(cs, st, ours, theirs, ord1, ord2) ==
    Bind(OursLoop(cs, [st EXCEPT !.oursIdx = st.idx], ours, theirs, ord1, <<>>), LAMBDA l1 :
        TheirsLoop(cs, l1.st, ours, theirs, ord2, l1.res))

\* getMergingDiff with the status map of its changes
getMergingDiff(cs, st, base, c) ==
    LET from == IF base.isVirtual THEN IndexAsTree(IdxOfCommit(st, base))
                ELSE cs[base.commit].tree
    IN [base |-> base, commit |-> c, changes |-> Statuses(from, cs[c.commit].tree)]

\* the changes map createVirtualParent discards (newBase, _, err): its
\* conflicting paths are remembered in st.inner
NoteInner(st, changes) ==
    [st EXCEPT !.inner = @ \cup {p \in DOMAIN changes :
                                    changes[p].diffType \in ConflictTypes}]

\* a computeParent call with what getCommonParents returned to it and the
\* number of createVirtualParent calls it is nested in
NoteCall(st, oldC, newC, parents) ==
    [st EXCEPT !.calls = Append(@, [old |-> oldC, new |-> newC, bases |-> parents,
                                    depth |-> st.depth])]

\* the three mutually recursive steps of merge-base synthesis; ords is the
\* order in which the status maps are ranged over
RECURSIVE computeParent(_, _, _, _, _)
RECURSIVE createVirtualParentLoop(_, _, _, _, _, _, _)
RECURSIVE mergeCommits(_, _, _, _, _, _, _)

NilCommit == [commit |-> 0, idx |-> {}, isVirtual |-> FALSE]

\* mergeCommits that keeps the index it finds instead of resetting it to
\* the tree of ours
mergeCommitsNoReset(cs, st, base, ours, theirs, recursionLevel, ords) ==
    Bind(IF base = NilCommit
         THEN computeParent(cs, st, ours.commit, theirs.commit, ords)
         ELSE [st |-> st, p |-> base],
         LAMBDA cp :
    IF cp.st.err # NoErr THEN [st |-> cp.st, base |-> NilCommit, changes |-> <<>>] ELSE
    Bind(compareCommitsChanges(cs, cp.st, getMergingDiff(cs, cp.st, cp.p, ours),
                               getMergingDiff(cs, cp.st, cp.p, theirs), ords, ords),
         LAMBDA cc : [st |-> cc.st, base |-> cp.p, changes |-> cc.res]))

\* mergeCommits; result [st, base, changes]
mergeCommits(cs, st, base, ours, theirs, recursionLevel, ords) ==
    Bind(IF base = NilCommit
         THEN computeParent(cs, st, ours.commit, theirs.commit, ords)
         ELSE [st |-> st, p |-> base],
         LAMBDA cp :
    IF cp.st.err # NoErr THEN [st |-> cp.st, base |-> NilCommit, changes |-> <<>>] ELSE
    Bind(resetIndex(cp.st, cs[ours.commit].tree), LAMBDA st1 :
    \* getMergingDiff fails, in the merge itself or while the virtual
    \* ancestor is built
    IF \/ st1.fault = "outerDiff" /\ recursionLevel = 0
       \/ st1.fault = "innerDiff" /\ recursionLevel > 0
    THEN [st |-> Broken(st1), base |-> NilCommit, changes |-> <<>>] ELSE
    Bind(compareCommitsChanges(cs, st1, getMergingDiff(cs, st1, cp.p, ours),
                               getMergingDiff(cs, st1, cp.p, theirs), ords, ords),
         LAMBDA cc : [st |-> cc.st, base |-> cp.p, changes |-> cc.res])))

\* the loop of createVirtualParent from parents[i] on; result [st, p]
createVirtualParentLoop(cs, st, parents, i, base, recursionLevel, ords) ==
    IF i > Len(parents) THEN [st |-> st, p |-> base]
    ELSE Bind(mergeCommits(cs, st, NilCommit, base, MergingCommit(parents[i]),
                           recursionLevel + 1, ords),
              LAMBDA m :
                  IF m.st.err # NoErr THEN [st |-> m.st, p |-> NilCommit]
                  ELSE createVirtualParentLoop(cs, NoteInner(m.st, m.changes), parents,
                                               i + 1, m.base, recursionLevel + 1, ords))

\* createVirtualParent that leaves out the merge with the second parent
createVirtualParentSkipsMerge(cs, st, parents, ords) ==
    Bind(createVirtualParentLoop(cs, [st EXCEPT !.depth = @ + 1], parents, 3,
                                 MergingCommit(parents[1]), 1, ords),
         LAMBDA l :
             IF l.st.err # NoErr THEN l
             ELSE [st |-> [l.st EXCEPT !.depth = @ - 1],
                   p |-> [l.p EXCEPT !.isVirtual = TRUE, !.idx = l.st.idx]])

\* createVirtualParent; result [st, p]
createVirtualParent(cs, st, parents, ords) ==
    Bind(createVirtualParentLoop(cs, [st EXCEPT !.depth = @ + 1], parents, 2,
                                 MergingCommit(parents[1]), 1, ords),
         LAMBDA l :
             IF l.st.err # NoErr THEN l
             ELSE [st |-> [l.st EXCEPT !.depth = @ - 1],
                   p |-> [l.p EXCEPT !.isVirtual = TRUE, !.idx = l.st.idx]])

\* computeParent that takes the older commit when there is no common parent
computeParentNoFailure(cs, st, oldC, newC, ords) ==
    Bind(getCommonParents(cs, oldC, newC), LAMBDA parents :
    Bind(NoteCall(st, oldC, newC, parents), LAMBDA st0 :
        IF Len(parents) = 0 THEN [st |-> st0, p |-> MergingCommit(oldC)]
        ELSE IF Len(parents) > 1 THEN createVirtualParent(cs, st0, parents, ords)
        ELSE [st |-> st0, p |-> MergingCommit(parents[1])]))

\* computeParent; result [st, p]
computeParent(cs, st, oldC, newC, ords) ==
    Bind(getCommonParents(cs, oldC, newC), LAMBDA parents :
    Bind(NoteCall(st, oldC, newC, parents), LAMBDA st0 :
        IF Len(parents) = 0 THEN [st |-> Fail(st0, "NoCommonParent"), p |-> NilCommit]
        ELSE IF Len(parents) > 1 THEN createVirtualParent(cs, st0, parents, ords)
        ELSE [st |-> st0, p |-> MergingCommit(parents[1])]))

\* isFastForward: old is new or an ancestor of new
RECURSIVE History(_, _)
History(cs, c) ==
    {c} \cup UNION {History(cs, cs[c].parents[i]) : i \in 1..Len(cs[c].parents)}

isFastForward(cs, old, new) == old \in History(cs, new)

\* hasUncommittedFiles that looks at the staged changes only
hasUncommittedFilesStagedOnly(cs, st, commit) ==
    LET stagedChanges == Statuses(cs[commit].tree, IndexAsTree(st.idx))
    IN DOMAIN stagedChanges # {}

\* hasUncommittedFiles: staged changes (HEAD tree against index) or
\* unstaged changes other than deletions (index against worktree)
hasUncommittedFiles(cs, st, commit) ==
    LET stagedChanges == Statuses(cs[commit].tree, IndexAsTree(st.idx))
        unstagedChanges == Statuses(IndexAsTree(st.idx), st.wt)
        withoutDel == {q \in DOMAIN unstagedChanges : unstagedChanges[q] # "Deleted"}
    IN DOMAIN stagedChanges # {} \/ withoutDel # {}

\* the lines logMergeConflicts writes for one path: [b, fb, conflict]
ConflictLines(path, r, theirs) ==
    CASE r.diffType = mergeDiffBothAdded ->
           [b |-> <<<<"Auto-merging", path>>, <<"CONFLICT (add/add): Merge conflict in", path>>>>,
            fb |-> <<<<"#\t", path>>>>, conflict |-> TRUE]
      [] r.diffType = mergeDiffBothModifiedWithConflicts ->
           [b |-> <<<<"Auto-merging", path>>, <<"CONFLICT (content): Merge conflict in", path>>>>,
            fb |-> <<<<"#\t", path>>>>, conflict |-> TRUE]
      [] r.diffType = mergeDiffModifiedDeleted ->
           [b |-> <<<<"(modify/delete):", path, "modified in HEAD and deleted in", theirs>>>>,
            fb |-> <<<<"#\t", path>>>>, conflict |-> TRUE]
      [] r.diffType = mergeDiffDeletedModified ->
           [b |-> <<<<"(delete/modify):", path, "deleted in HEAD and modified in", theirs>>>>,
            fb |-> <<<<"#\t", path>>>>, conflict |-> TRUE]
      [] OTHER -> [b |-> <<>>, fb |-> <<>>, conflict |-> FALSE]

RECURSIVE LogLoop(_, _, _, _)
LogLoop(mergeResult, theirs, ord, acc) ==
    IF ord = <<>> THEN acc
    ELSE IF Head(ord) \notin DOMAIN mergeResult
    THEN LogLoop(mergeResult, theirs, Tail(ord), acc)
    ELSE LET c == ConflictLines(Head(ord), mergeResult[Head(ord)], theirs)
         IN LogLoop(mergeResult, theirs, Tail(ord),
                    [b |-> acc.b \o c.b, fb |-> acc.fb \o c.fb,
                     hasConflicts |-> acc.hasConflicts \/ c.conflict])

\* a merge without conflicts that writes an empty MERGE_MSG
CleanMergeMsgEmpty(theirs) == <<>>

CleanMergeMsg(theirs) ==
    <<<<"Merge branch", theirs>>, <<>>, <<"# Please enter a commit message ...">>>>

\* logMergeConflicts that reports every merge as free of conflicts
logMergeConflictsAlwaysClean(st, mergeResult, theirs, ord) ==
    [st |-> [st EXCEPT !.mergeMsg = CleanMergeMsg(theirs), !.log = Append(@, "MERGE_MSG")],
     hasConflicts |-> FALSE,
     mergeMsg |-> <<<<"Create merge commit to continue merge process">>>>]

\* logMergeConflicts; result [st, hasConflicts, mergeMsg]
logMergeConflicts(st, mergeResult, theirs, ord) ==
    \* Storer.SetMergeMsg fails
    IF st.fault = "SetMergeMsg"
    THEN [st |-> Broken(st), hasConflicts |-> FALSE, mergeMsg |-> <<>>] ELSE
    Bind(LogLoop(mergeResult, theirs, ord,
                 [b |-> <<>>,
                  fb |-> <<<<"Merge branch", theirs>>, <<>>, <<"# Conflicts:">>>>,
                  hasConflicts |-> FALSE]),
         LAMBDA l :
    IF l.hasConflicts
    THEN [st |-> [st EXCEPT !.mergeMsg = l.fb, !.log = Append(@, "MERGE_MSG")],
          hasConflicts |-> TRUE,
          mergeMsg |-> l.b \o <<<<"Automatic merge failed; fix conflicts and then commit the result.">>>>]
    ELSE [st |-> [st EXCEPT !.mergeMsg = CleanMergeMsg(theirs), !.log = Append(@, "MERGE_MSG")],
          hasConflicts |-> FALSE,
          mergeMsg |-> <<<<"Create merge commit to continue merge process">>>>])

\* nonFastForwardMerge; result [st, msg, res]: st.err is the returned error
nonFastForwardMerge(cs, st, ours, theirs, theirsBranch, ords) ==
    \* Repository.MergeHead fails
    IF st.fault = "MergeHead" THEN [st |-> Broken(st), msg |-> <<>>, res |-> <<>>]
    ELSE IF st.mergeHead # NoRef
    THEN [st |-> Fail(st, "ErrMergeInProgress"), msg |-> <<>>, res |-> <<>>]
    \* a tree diff of hasUncommittedFiles fails: it returns (false, err), and
    \* only the boolean is looked at
    ELSE IF st.fault # "diff" /\ hasUncommittedFiles(cs, st, ours)
    THEN [st |-> Fail(st, "ErrHasUncommittedFiles"), msg |-> <<>>, res |-> <<>>]
    ELSE
    Bind(computeParent(cs, IF st.fault = "diff" THEN Hit(st) ELSE st, ours, theirs, ords),
         LAMBDA cp :
    IF cp.st.err # NoErr THEN [st |-> cp.st, msg |-> <<>>, res |-> <<>>]
    \* SetReference(MERGE_HEAD) fails
    ELSE IF cp.st.fault = "SetMergeHead"
    THEN [st |-> Broken(cp.st), msg |-> <<>>, res |-> <<>>]
    \* SetReference(ORIG_HEAD) fails, MERGE_HEAD is written
    ELSE IF cp.st.fault = "SetOrigHead"
    THEN [st |-> Broken([cp.st EXCEPT !.mergeHead = theirs, !.log = Append(@, "MERGE_HEAD")]),
          msg |-> <<>>, res |-> <<>>]
    ELSE
    \* set MERGE_HEAD, then ORIG_HEAD, then merge
    Bind(mergeCommits(cs,
                      [cp.st EXCEPT !.mergeHead = theirs, !.origHead = ours,
                                    !.log = @ \o <<"MERGE_HEAD", "ORIG_HEAD">>],
                      cp.p, MergingCommit(ours), MergingCommit(theirs), 0, ords),
         LAMBDA m :
    IF m.st.err # NoErr THEN [st |-> m.st, msg |-> <<>>, res |-> <<>>] ELSE
    Bind(logMergeConflicts(m.st, m.changes, theirsBranch, ords), LAMBDA lg :
        IF lg.st.err # NoErr THEN [st |-> lg.st, msg |-> <<>>, res |-> <<>>] ELSE
        [st |-> Fail(lg.st, IF lg.hasConflicts THEN "ErrMergeWithConflicts"
                            ELSE "ErrMergeCommitNeeded"),
         msg |-> lg.mergeMsg, res |-> m.changes])))

\* Worktree.Reset(HardReset): HEAD, index and worktree become the commit
ResetHard(cs, st, c) ==
    LET st1 == [st EXCEPT !.head = c]
        st2 == SetIndex(st1, EntriesOfTree(cs[c].tree))
    IN IF st2.wt = cs[c].tree THEN st2
       ELSE [st2 EXCEPT !.wt = cs[c].tree, !.log = Append(@, "wt")]

\* updateHEAD
updateHEAD(st, c) == [st EXCEPT !.head = c]

\* Worktree.Merge that moves HEAD but does not reset on a fast-forward
WorktreeMergeNoReset(cs, st, theirsHash, theirsBranch, ords) ==
    IF isFastForward(cs, st.head, theirsHash)
    THEN [st |-> updateHEAD(st, theirsHash), msg |-> <<>>, res |-> <<>>, ff |-> TRUE]
    ELSE Bind(nonFastForwardMerge(cs, st, st.head, theirsHash, theirsBranch, ords),
              LAMBDA nff : [st |-> nff.st, msg |-> nff.msg, res |-> nff.res, ff |-> FALSE])

\* Worktree.Merge; result [st, msg, res, ff]
WorktreeMerge(cs, st, theirsHash, theirsBranch, ords) ==
    IF isFastForward(cs, st.head, theirsHash)
    THEN [st |-> ResetHard(cs, updateHEAD(st, theirsHash), theirsHash),
          msg |-> <<>>, res |-> <<>>, ff |-> TRUE]
    ELSE Bind(nonFastForwardMerge(cs, st, st.head, theirsHash, theirsBranch, ords),
              LAMBDA nff : [st |-> nff.st, msg |-> nff.msg, res |-> nff.res, ff |-> FALSE])

\* ------------------------------------------------- reference: reachability
RECURSIVE Ancestors(_, _)
\* c and every commit reachable from c through parent links
Ancestors(cs, c) ==
    {c} \cup UNION {Ancestors(cs, cs[c].parents[i]) : i \in 1..Len(cs[c].parents)}

CommonAncestors(cs, a, b) == Ancestors(cs, a) \cap Ancestors(cs, b)

BestCommonAncestors(cs, a, b) ==
    {x \in CommonAncestors(cs, a, b) :
        \A y \in CommonAncestors(cs, a, b) : y = x \/ x \notin Ancestors(cs, y)}

\* ------------------------------------------------ generated histories (MB)
ParentSeqs(n) ==
    {<<>>} \cup {<<p>> : p \in 1..(n - 1)}
           \cup {<<pr[1], pr[2]>> : pr \in {x \in (1..(n - 1)) \X (1..(n - 1)) : x[1] # x[2]}}

NoTree == <<>>

RECURSIVE Dags(_)
Dags(n) ==
    IF n = 0 THEN {<<>>}
    ELSE {Append(d, [parents |-> ps, when |-> t, tree |-> NoTree]) :
              d \in Dags(n - 1), ps \in ParentSeqs(n), t \in 1..MaxTime}

NoRet == [op |-> "none", err |-> NoErr, msg |-> <<>>, ff |-> FALSE, target |-> 0, conf |-> <<>>]
NoPre == [head |-> 0, idx |-> {}, wt |-> <<>>, blobs |-> <<>>, mergeHead |-> NoRef,
          origHead |-> NoRef, mergeMsg |-> <<>>]
NoMerge == [valid |-> FALSE, idx |-> {}]

\* an empty file table and no storage call made yet
NilFile == [id |-> 0, parentID |-> 0, name |-> "", path |-> <<>>, isDir |-> FALSE]
NoFsRet == [op |-> "none", from |-> <<>>, to |-> <<>>, err |-> NoErr, before |-> {},
            renames |-> 0]
NoFS == fs = [rows |-> {}, nextID |-> 1] /\ fsRet = NoFsRet

\* the repository part of the state is not used by the merge-base walk
NoRepo ==
    /\ head = 0 /\ topic = 0 /\ idx = {} /\ wt = <<>> /\ blobs = <<>>
    /\ mergeHead = NoRef /\ origHead = NoRef /\ mergeMsg = <<>>
    /\ ret = NoRet /\ log = <<>> /\ pre = NoPre /\ inMerge = NoMerge
    /\ lastRes = <<>> /\ lastInner = {} /\ lastCalls = <<>> /\ edits = 0 /\ born = 0
    /\ faults = 0 /\ temps = 0
    /\ NoFS

\* no differ or file-merger call is under way
NoText == fBase = <<>> /\ fA = <<>> /\ fB = <<>> /\ fOut = <<>> /\ fpc = "idle"

\* criss-cross: commits 2 and 3 fork from the root, 4 and 5 each merge both
CrissCrossParents == << <<>>, <<1>>, <<1>>, <<2, 3>>, <<3, 2>> >>

\* the criss-cross graph with every assignment of author timestamps
CrissCrossDags ==
    {[i \in DOMAIN CrissCrossParents |->
         [parents |-> CrissCrossParents[i], when |-> t[i], tree |-> NoTree]] :
        t \in [DOMAIN CrissCrossParents -> 1..MaxTime]}

InitMB ==
    /\ commits \in Dags(MaxCommits) \cup CrissCrossDags
    /\ prQ = <<>>
    /\ res = <<>>
    /\ wpc = "idle"
    /\ wOld = 0
    /\ wNew = 0
    /\ seen = <<>>
    /\ NoRepo
    /\ NoText

\* the flags the entries of commit c carry in queue q
FlagsIn(q, c) == UNION {q[i].flags : i \in {k \in 1..Len(q) : q[k].value = c}}

\* the flags of the queue entries added to the record s
NoteFlags(s, q) == [c \in DOMAIN s |-> s[c] \cup FlagsIn(q, c)]

\* getCommonParents is entered: the queue is seeded with both commits
WalkStart(a, b) ==
    /\ wpc = "idle"
    /\ wOld' = a
    /\ wNew' = b
    /\ prQ' = WalkSeed(commits, a, b)
    /\ seen' = NoteFlags([c \in 1..Len(commits) |-> {}], prQ')
    /\ res' = <<>>
    /\ wpc' = "walking"
    /\ UNCHANGED <<commits, repoVars, textVars, faultVars, fsVars>>

\* one iteration of the loop
WalkIter ==
    /\ wpc = "walking"
    /\ interesting(prQ)
    /\ LET s == WalkStep(commits, prQ, res) IN
          /\ prQ' = s.q
          /\ res' = s.res
    /\ seen' = NoteFlags(seen, prQ')
    /\ UNCHANGED <<commits, wpc, wOld, wNew, repoVars, textVars, faultVars, fsVars>>

\* the loop condition fails: getCommonParents returns res
WalkReturn ==
    /\ wpc = "walking"
    /\ ~interesting(prQ)
    /\ wpc' = "done"
    /\ UNCHANGED <<commits, prQ, res, wOld, wNew, seen, repoVars, textVars, faultVars, fsVars>>

NextMB ==
    \/ \E a \in 1..Len(commits), b \in 1..Len(commits) : WalkStart(a, b)
    \/ WalkIter
    \/ WalkReturn

SpecMB == InitMB /\ [][NextMB]_vars

\* the loop of getCommonParents is sequential code that keeps running: an
\* iteration that can be taken is taken, and so is the return
SpecMBLive == SpecMB /\ WF_vars(WalkIter) /\ WF_vars(WalkReturn)

\* ---------------------------------------------------- repository histories
Base == <<"a", "b", "c">>
Top1 == <<"x", "b", "c">>
Top2 == <<"z", "b", "c">>
Bottom == <<"a", "b", "y">>
Edited == <<"edit">>

Contents == {Base, Top1, Top2, Bottom}
EditPaths == {"f"}

\* a file missing from a tree
Absent == <<"(absent)">>

\* the tree holding f with content cf and g with content cg
MkTree(cf, cg) ==
    [p \in {q \in Paths : (IF q = "f" THEN cf ELSE cg) # Absent} |->
        IF p = "f" THEN cf ELSE cg]

Commit(ps, t, tr) == [parents |-> ps, when |-> t, tree |-> tr]

\* what base, ours and theirs hold for the second file
GCases == {<<Absent, Absent, Absent>>, <<Base, Top1, Top2>>, <<Absent, Absent, Base>>}

\* master and topic fork from a root commit with file f holding r
ForkFrom(r, os, ts) ==
    {<<Commit(<<>>, 1, MkTree(r, g[1])), Commit(<<1>>, 2, MkTree(o, g[2])),
       Commit(<<1>>, 3, MkTree(t, g[3]))>> : o \in os, t \in ts, g \in GCases}

ForkHistories ==
    ForkFrom(Absent, {Absent, Base, Top1}, {Absent, Base, Top1})
        \cup ForkFrom(Base, {Absent, Base, Top1, Bottom}, Contents \cup {Absent})

\* topic is ahead of master
LinearHistories ==
    {<<Commit(<<>>, 1, MkTree(r, Absent)), Commit(<<1>>, 2, MkTree(t, Absent))>> :
        r \in {Absent, Base}, t \in Contents \cup {Absent}}

\* master and topic have no common commit
UnrelatedHistories ==
    {<<Commit(<<>>, 1, MkTree(r, Absent)), Commit(<<>>, 2, MkTree(t, Absent))>> :
        r \in {Absent, Base}, t \in {Absent, Base}}

\* criss-cross: master (4) and topic (5) both merged commits 2 and 3
CrissCrossHistories ==
    {<<Commit(<<>>, 1, MkTree(Base, Absent)), Commit(<<1>>, 2, MkTree(a, Absent)),
       Commit(<<1>>, 3, MkTree(b, Absent)), Commit(<<2, 3>>, 4, MkTree(c, Absent)),
       Commit(<<3, 2>>, 5, MkTree(d, Absent))>> :
        a \in {Top1, Absent}, b \in {Base, Top1, Top2},
        c \in {Base, Top1, Top2}, d \in {Absent, Base, Top1, Top2}}

\* criss-cross on criss-cross: master (6) and topic (7) both merged commits
\* 4 and 5, which both merged commits 2 and 3
DoubleCrissCrossHistories ==
    {<<Commit(<<>>, 1, MkTree(Base, Absent)), Commit(<<1>>, 2, MkTree(Top1, Absent)),
       Commit(<<1>>, 3, MkTree(b, Absent)), Commit(<<2, 3>>, 4, MkTree(Top1, Absent)),
       Commit(<<3, 2>>, 5, MkTree(b, Absent)), Commit(<<4, 5>>, 6, MkTree(Top1, Absent)),
       Commit(<<5, 4>>, 7, MkTree(b, Absent))>> : b \in {Top2, Bottom}}

Histories == ForkHistories \cup LinearHistories \cup UnrelatedHistories
             \cup CrissCrossHistories \cup DoubleCrissCrossHistories

Perms == {o \in [1..Cardinality(Paths) -> Paths] : \A i, j \in 1..Cardinality(Paths) : o[i] = o[j] => i = j}

\* the state record the operations of the orchestrator work on
CurSt == [head |-> head, idx |-> idx, wt |-> wt, blobs |-> blobs,
          mergeHead |-> mergeHead, origHead |-> origHead, mergeMsg |-> mergeMsg,
          oursIdx |-> {}, log |-> <<>>, inner |-> {}, calls |-> <<>>, depth |-> 0,
          err |-> NoErr,
          fault |-> NoFault, faulted |-> FALSE, temps |-> 0]

Snapshot == [head |-> head, idx |-> idx, wt |-> wt, blobs |-> blobs,
             mergeHead |-> mergeHead, origHead |-> origHead, mergeMsg |-> mergeMsg]

Store(st) ==
    /\ head' = st.head
    /\ idx' = st.idx
    /\ wt' = st.wt
    /\ blobs' = st.blobs
    /\ mergeHead' = st.mergeHead
    /\ origHead' = st.origHead
    /\ mergeMsg' = st.mergeMsg

\* a repository with a clean checkout of master (the last but one commit
\* of the history), topic at the last commit
Init ==
    /\ commits \in Histories
    /\ head = IF Len(commits) = 2 THEN 1 ELSE Len(commits) - 1
    /\ topic = Len(commits)
    /\ idx = EntriesOfTree(commits[head].tree)
    /\ wt = commits[head].tree
    /\ blobs = <<>>
    /\ mergeHead = NoRef
    /\ origHead = NoRef
    /\ mergeMsg = <<>>
    /\ ret = NoRet
    /\ log = <<>>
    /\ pre = NoPre
    /\ inMerge = NoMerge
    /\ lastRes = <<>>
    /\ lastInner = {}
    /\ lastCalls = <<>>
    /\ edits = 0
    /\ born = 0
    /\ faults = 0
    /\ temps = 0
    /\ NoFS
    /\ prQ = <<>> /\ res = <<>> /\ wpc = "idle" /\ wOld = 0 /\ wNew = 0 /\ seen = <<>>
    /\ NoText

\* log, pre, lastRes, lastInner and lastCalls describe the last Merge call only
Forget ==
    /\ log' = <<>> /\ pre' = NoPre /\ lastRes' = <<>> /\ lastInner' = {}
    /\ lastCalls' = <<>>

\* what Worktree.Merge leaves when it returns r for the target commit
MergeReturns(target, r) ==
    /\ Store(r.st)
    /\ ret' = [op |-> "Merge", err |-> r.st.err, msg |-> r.msg, ff |-> r.ff,
               target |-> target, conf |-> <<>>]
    /\ log' = r.st.log
    /\ pre' = Snapshot
    /\ inMerge' = IF r.st.err \in {"ErrMergeCommitNeeded", "ErrMergeWithConflicts"}
                  THEN [valid |-> TRUE, idx |-> idx] ELSE inMerge
    /\ lastRes' = r.res
    /\ lastInner' = r.st.inner
    /\ lastCalls' = r.st.calls
    /\ UNCHANGED <<commits, topic, edits, born, mbVars, textVars>>

\* Worktree.Merge(branch)
Merge(branch, ords) ==
    /\ MergeReturns(IF branch = "master" THEN head ELSE topic,
                    WorktreeMerge(commits, CurSt, IF branch = "master" THEN head ELSE topic,
                                  branch, ords))
    /\ UNCHANGED <<faultVars, fsVars>>

\* Worktree.AbortMerge that leaves the blob cache as it is
WorktreeAbortMergeKeepsCache(cs, st) ==
    LET st1 == [st EXCEPT !.mergeHead = NoRef, !.mergeMsg = <<>>]
        st2 == [ResetHard(cs, st1, st1.origHead) EXCEPT !.origHead = NoRef]
    IN IF st1.origHead = NoRef THEN Fail(st1, "ErrReferenceNotFound") ELSE st2

\* Worktree.AbortMerge
WorktreeAbortMerge(cs, st) ==
    LET \* removeMergeHead, RemoveMergeMsg
        st1 == [st EXCEPT !.mergeHead = NoRef, !.mergeMsg = <<>>]
        \* Reset to ORIG_HEAD, removeOrigHead, blobs = nil
        st2 == [ResetHard(cs, st1, st1.origHead) EXCEPT !.origHead = NoRef, !.blobs = <<>>]
    IN IF st1.origHead = NoRef THEN Fail(st1, "ErrReferenceNotFound") ELSE st2

AbortMerge ==
    LET out == WorktreeAbortMerge(commits, CurSt)
    IN
    /\ Store(out)
    /\ ret' = [op |-> "AbortMerge", err |-> out.err, msg |-> <<>>, ff |-> FALSE,
               target |-> origHead, conf |-> <<>>]
    /\ inMerge' = NoMerge
    /\ Forget
    /\ UNCHANGED <<commits, topic, edits, born, mbVars, textVars, faultVars, fsVars>>

RECURSIVE ConflictEntriesLoop(_, _)
ConflictEntriesLoop(es, withConf) ==
    IF es = {} THEN withConf
    ELSE LET e == CHOOSE x \in es : TRUE
             next == IF e.stage # Merged
                     THEN [q \in DOMAIN withConf \cup {e.name} |->
                              IF q \in DOMAIN withConf /\ q # e.name THEN withConf[q]
                              ELSE IF q \in DOMAIN withConf THEN withConf[q] \cup {e}
                              ELSE {e}]
                     ELSE withConf
         IN ConflictEntriesLoop(es \ {e}, next)

\* Worktree.ConflictEntries that drops the paths with several entries
ConflictEntriesFirstOnly(ix) ==
    LET all == ConflictEntriesLoop(ix, <<>>)
    IN [q \in {x \in DOMAIN all : Cardinality(all[x]) = 1} |-> all[q]]

\* Worktree.ConflictEntries: path -> the entries whose stage is not Merged
ConflictEntries(ix) == ConflictEntriesLoop(ix, <<>>)

\* the caller asks for the conflicts the merge it just ran has left
ConflictEntriesCall ==
    /\ ret.op = "Merge"
    /\ ret' = [op |-> "ConflictEntries", err |-> NoErr, msg |-> <<>>, ff |-> FALSE,
               target |-> 0, conf |-> ConflictEntries(idx)]
    /\ Forget
    /\ UNCHANGED <<commits, head, topic, idx, wt, blobs, mergeHead, origHead, mergeMsg,
                   inMerge, edits, born, mbVars, textVars, faultVars, fsVars>>

\* getUnmergedFiles that looks at the entries of their side only
getUnmergedFilesTheirsOnly(ix) == {e.name : e \in {x \in ix : x.stage = TheirMode}}

\* getUnmergedFiles
getUnmergedFiles(ix) == {e.name : e \in {x \in ix : x.stage # Merged}}

\* the parents Worktree.Commit gives the new commit, MERGE_HEAD first
commitParentsSwapped(h, mh) == IF mh # NoRef THEN <<mh, h>> ELSE <<h>>

\* opts.Parents as Worktree.Commit sets it: HEAD, then MERGE_HEAD if it exists
commitParents(h, mh) == IF mh # NoRef THEN <<h, mh>> ELSE <<h>>

\* Worktree.Commit(msg, opts) with valid options
CommitIndex ==
    LET unmerged == getUnmergedFiles(idx)
        parents == commitParents(head, mergeHead)
        new == Commit(parents, Len(commits) + 1, IndexAsTree(idx))
    IN
    /\ mergeHead # NoRef \/ unmerged # {}
    /\ unmerged # {} \/ born < MaxNewCommits
    /\ IF unmerged # {}
       THEN /\ ret' = [op |-> "Commit", err |-> "ErrHasUnmergedFiles", msg |-> <<>>,
                       ff |-> FALSE, target |-> 0, conf |-> <<>>]
            /\ UNCHANGED <<commits, head, idx, wt, blobs, mergeHead, origHead, mergeMsg,
                           inMerge, born>>
       ELSE /\ commits' = Append(commits, new)
            /\ head' = Len(commits) + 1
            /\ mergeHead' = NoRef
            /\ mergeMsg' = <<>>
            /\ origHead' = NoRef
            /\ blobs' = <<>>
            /\ born' = born + 1
            /\ inMerge' = NoMerge
            /\ ret' = [op |-> "Commit", err |-> NoErr, msg |-> <<>>, ff |-> FALSE,
                       target |-> Len(commits) + 1, conf |-> <<>>]
            /\ UNCHANGED <<idx, wt>>
    /\ Forget
    /\ UNCHANGED <<topic, edits, mbVars, textVars, faultVars, fsVars>>

\* the user edits or deletes a worktree file
EditFile(path) ==
    /\ edits < MaxEdits
    /\ wt' = [q \in DOMAIN wt \cup {path} |-> IF q = path THEN Edited ELSE wt[q]]
    /\ edits' = edits + 1
    /\ ret' = [op |-> "EditFile", err |-> NoErr, msg |-> <<>>, ff |-> FALSE, target |-> 0, conf |-> <<>>]
    /\ Forget
    /\ UNCHANGED <<commits, head, topic, idx, blobs, mergeHead, origHead, mergeMsg,
                   inMerge, born, mbVars, textVars, faultVars, fsVars>>

DeleteFile(path) ==
    /\ edits < MaxEdits
    /\ path \in DOMAIN wt
    /\ wt' = [q \in DOMAIN wt \ {path} |-> wt[q]]
    /\ edits' = edits + 1
    /\ ret' = [op |-> "DeleteFile", err |-> NoErr, msg |-> <<>>, ff |-> FALSE, target |-> 0, conf |-> <<>>]
    /\ Forget
    /\ UNCHANGED <<commits, head, topic, idx, blobs, mergeHead, origHead, mergeMsg,
                   inMerge, born, mbVars, textVars, faultVars, fsVars>>

\* Worktree.Add(path): the user stages a file (and so resolves its conflict)
AddFile(path) ==
    LET st == WorktreeAdd(CurSt, path)
    IN
    /\ st.idx # idx
    /\ idx' = st.idx
    /\ ret' = [op |-> "Add", err |-> NoErr, msg |-> <<>>, ff |-> FALSE, target |-> 0, conf |-> <<>>]
    /\ Forget
    /\ UNCHANGED <<commits, head, topic, wt, blobs, mergeHead, origHead, mergeMsg,
                   inMerge, edits, born, mbVars, textVars, faultVars, fsVars>>

Next ==
    \/ \E b \in {"master", "topic"}, o \in Perms : Merge(b, o)
    \/ AbortMerge
    \/ ConflictEntriesCall
    \/ CommitIndex
    \/ \E p \in EditPaths : EditFile(p)
    \/ \E p \in EditPaths : DeleteFile(p)
    \/ \E p \in Paths : AddFile(p)

Spec == Init /\ [][Next]_vars

\* ------------------------------------- Merge with a failing collaborator
\* what a Merge leaves in which the failing call was reached
FaultyReturns(target, r) ==
    /\ faults < MaxFaults
    /\ r.st.faulted
    /\ MergeReturns(target, r)
    /\ faults' = faults + 1
    /\ temps' = temps + r.st.temps
    /\ UNCHANGED fsVars

\* Worktree.Merge(branch) in which the collaborator call f fails
MergeFaulty(branch, ords, f) ==
    FaultyReturns(IF branch = "master" THEN head ELSE topic,
                  WorktreeMerge(commits, [CurSt EXCEPT !.fault = f],
                                IF branch = "master" THEN head ELSE topic, branch, ords))

NextFault ==
    \/ Next
    \/ \E b \in {"master", "topic"}, o \in Perms, f \in Faults : MergeFaulty(b, o, f)

SpecFault == Init /\ [][NextFault]_vars

\* ------------------------------------------- differ and file merger alone
\* the lines a generated file is made of
Lines == {"a", "b"}

\* every file of at most MaxLen lines
Texts == UNION {[1..n -> Lines] : n \in 0..MaxLen}

InitText ==
    /\ commits = <<>>
    /\ prQ = <<>> /\ res = <<>> /\ wpc = "idle" /\ wOld = 0 /\ wNew = 0 /\ seen = <<>>
    /\ NoRepo
    /\ fBase \in Texts
    /\ fA \in Texts
    /\ fB \in Texts
    /\ fOut = <<>>
    /\ fpc = "idle"

\* NewMyersDifferer(a, b).Diff()
DiffCall ==
    /\ fpc = "idle"
    /\ fOut' = Diff(fA, fB)
    /\ fpc' = "Diff"
    /\ UNCHANGED <<commits, mbVars, repoVars, fBase, fA, fB, faultVars, fsVars>>

\* diff3.Merge(base, ours, theirs): setup (the two diffs) and writeChunks
Diff3MergeCall ==
    /\ fpc = "idle"
    /\ fOut' = writeChunks(fBase, fA, fB)
    /\ fpc' = "Merge"
    /\ UNCHANGED <<commits, mbVars, repoVars, fBase, fA, fB, faultVars, fsVars>>

NextText == DiffCall \/ Diff3MergeCall

SpecText == InitText /\ [][NextText]_vars

\* --------------------------------------------------------- the blob cache
\* a nil *object.Blob
NilBlob == <<"(nil)">>

\* the blobs and the stages handed to addOrUpdateBlobToCache
CacheBlobs == {NilBlob, Base, Top1}
CacheStages == {AncestorMode, OurMode, TheirMode}

\* a Worktree whose blob cache is nil
InitCache ==
    /\ commits = <<>>
    /\ prQ = <<>> /\ res = <<>> /\ wpc = "idle" /\ wOld = 0 /\ wNew = 0 /\ seen = <<>>
    /\ NoRepo
    /\ NoText

\* w.addOrUpdateBlobToCache(path, b, st)
CacheCall(path, b, stage) ==
    /\ blobs' = addOrUpdateBlobToCache(blobs, path, b, stage)
    /\ UNCHANGED <<commits, mbVars, head, topic, idx, wt, mergeHead, origHead, mergeMsg,
                   ret, log, pre, inMerge, lastRes, lastInner, lastCalls, edits, born,
                   textVars, faultVars, fsVars>>

NextCache == \E path \in Paths, b \in CacheBlobs, stage \in CacheStages : CacheCall(path, b, stage)

SpecCache == InitCache /\ [][NextCache]_vars

\* ------------------------------------------------ MySQL-backed file storage
\* paths are sequences of components below the root "/"; clean drops the
\* "." components (filepath.Clean)
clean(path) == SelectSeq(path, LAMBDA c : c # ".")

\* filepath.Dir: the path without its last component, the root for a path
\* of one component
PathDir(path) == SubSeq(path, 1, Len(path) - 1)

\* storage.GetFile (and GetFileID, its id): the row with the path, or nil
storageGetFile(t, path) ==
    IF \E r \in t.rows : r.path = clean(path)
    THEN CHOOSE r \in t.rows : r.path = clean(path)
    ELSE NilFile

\* storage.ChildrenByFileID: the rows whose parentID is id
ChildrenByFileID(t, id) == {r \in t.rows : r.parentID = id}

\* UPDATE ... SET name, path, parentID WHERE id: the rows after it
UpdateRow(rows, id, name, path, parentID) ==
    {IF r.id = id THEN [r EXCEPT !.name = name, !.path = path, !.parentID = parentID]
     ELSE r : r \in rows}

\* the UPDATE breaks UNIQUE (path): another row holds the path
Duplicate(rows, id, path) ==
    /\ \E r \in rows : r.id = id
    /\ \E r \in rows : r.id # id /\ r.path = path

RECURSIVE storageNewFile(_, _, _)
RECURSIVE createParent(_, _)

\* storage.NewFile, with CreateParentAddToFile; result [t, f, err]
storageNewFile(t, path, isDir) ==
    Bind(storageGetFile(t, path), LAMBDA old :
    IF old # NilFile
    THEN [t |-> t, f |-> NilFile,
          err |-> IF old.isDir THEN NoErr ELSE "file already exists"]
    ELSE
    Bind([id |-> t.nextID, parentID |-> 0, name |-> clean(path)[Len(clean(path))],
          path |-> clean(path), isDir |-> isDir], LAMBDA row :
    Bind(createParent([rows |-> t.rows \cup {row}, nextID |-> t.nextID + 1], path),
         LAMBDA cp :
        IF cp.err # NoErr THEN [t |-> cp.t, f |-> NilFile, err |-> cp.err]
        ELSE IF cp.parent = NilFile THEN [t |-> cp.t, f |-> row, err |-> NoErr]
        ELSE [t |-> [cp.t EXCEPT !.rows = UpdateRow(@, row.id, row.name, row.path,
                                                     cp.parent.id)],
              f |-> [row EXCEPT !.parentID = cp.parent.id], err |-> NoErr])))

\* createParent; result [t, parent, err]
createParent(t, path) ==
    IF clean(PathDir(path)) = <<>> THEN [t |-> t, parent |-> NilFile, err |-> NoErr]
    ELSE Bind(storageNewFile(t, clean(PathDir(path)), TRUE), LAMBDA nf :
             IF nf.err # NoErr THEN [t |-> nf.t, parent |-> NilFile, err |-> nf.err]
             ELSE IF nf.f = NilFile
             THEN [t |-> nf.t, parent |-> storageGetFile(nf.t, clean(PathDir(path))),
                   err |-> NoErr]
             ELSE [t |-> nf.t, parent |-> nf.f, err |-> NoErr])

\* storage.RemoveFile; result [t, err]
storageRemoveFile(t, path) ==
    Bind(storageGetFile(t, path), LAMBDA f :
        IF f = NilFile THEN [t |-> t, err |-> "ErrNotExist"]
        ELSE IF f.isDir /\ ChildrenByFileID(t, f.id) # {}
        THEN [t |-> t, err |-> "dir contains files"]
        ELSE [t |-> [t EXCEPT !.rows = {r \in @ : r.id # f.id}], err |-> NoErr])

\* the UPDATEs of the children's paths inside the transaction, in id order;
\* result [rows, panic]
RECURSIVE RenameChildren(_, _, _)
RenameChildren(rows, todo, to) ==
    IF todo = {} THEN [rows |-> rows, panic |-> FALSE]
    ELSE Bind(CHOOSE c \in todo : \A o \in todo : c.id <= o.id, LAMBDA c :
             IF Duplicate(rows, c.id, to \o <<c.name>>)
             THEN [rows |-> rows, panic |-> TRUE]
             ELSE RenameChildren(UpdateRow(rows, c.id, c.name, to \o <<c.name>>, c.parentID),
                                 todo \ {c}, to))

\* the UPDATE of a renamed file; result [t, err]
RenameRow(t, f, to, parentID) ==
    IF Duplicate(t.rows, f.id, to) THEN [t |-> t, err |-> "Duplicate entry"]
    ELSE [t |-> [t EXCEPT !.rows = UpdateRow(@, f.id, to[Len(to)], to, parentID)],
          err |-> NoErr]

\* storage.RenameFile; result [t, err]; a failing MustExec panics and the
\* transaction is never committed
storageRenameFile(t, from, to) ==
    Bind(storageGetFile(t, from), LAMBDA f :
    IF f = NilFile THEN [t |-> t, err |-> "ErrNotExist"]
    ELSE IF f.isDir
    THEN IF Duplicate(t.rows, f.id, clean(to)) THEN [t |-> t, err |-> "panic"]
         ELSE Bind(RenameChildren(UpdateRow(t.rows, f.id, clean(to)[Len(clean(to))],
                                            clean(to), f.parentID),
                                  ChildrenByFileID(t, f.id), clean(to)),
                   LAMBDA tx : IF tx.panic THEN [t |-> t, err |-> "panic"]
                               ELSE [t |-> [t EXCEPT !.rows = tx.rows], err |-> NoErr])
    ELSE
    Bind(storageRemoveFile(t, to).t, LAMBDA t1 :
    Bind(storageGetFile(t1, PathDir(clean(to))).id, LAMBDA newParentID :
        IF newParentID # 0 THEN RenameRow(t1, f, clean(to), newParentID)
        ELSE Bind(createParent(t1, clean(to)), LAMBDA cp :
                 IF cp.err # NoErr THEN [t |-> cp.t, err |-> cp.err]
                 ELSE RenameRow(cp.t, f, clean(to), cp.parent.id)))))

\* the paths handed to the storage
FsPaths == UNION {[1..n -> {"a", "b"}] : n \in 1..MaxDepth}

\* the table newStorage creates is empty
InitFS ==
    /\ commits = <<>>
    /\ prQ = <<>> /\ res = <<>> /\ wpc = "idle" /\ wOld = 0 /\ wNew = 0 /\ seen = <<>>
    /\ NoRepo
    /\ NoText

\* s.NewFile(path, mode, flag) of a file or of a directory
NewFileCall(path, isDir) ==
    /\ fs.nextID <= MaxRows
    /\ Bind(storageNewFile(fs, path, isDir), LAMBDA r :
           /\ fs' = r.t
           /\ fsRet' = [op |-> "NewFile", from |-> path, to |-> <<>>, err |-> r.err,
                        before |-> {}, renames |-> fsRet.renames])
    /\ UNCHANGED <<commits, mbVars, repoVars, textVars, faultVars>>

\* s.RenameFile(from, to)
RenameFileCall(from, to) ==
    /\ fsRet.renames < MaxRenames
    /\ Bind(storageRenameFile(fs, from, to), LAMBDA r :
           /\ fs' = r.t
           /\ fsRet' = [op |-> "RenameFile", from |-> from, to |-> to, err |-> r.err,
                        before |-> fs.rows, renames |-> fsRet.renames + 1])
    /\ UNCHANGED <<commits, mbVars, repoVars, textVars, faultVars>>

NextFS ==
    \/ \E path \in FsPaths, isDir \in BOOLEAN : NewFileCall(path, isDir)
    \/ \E from \in FsPaths, to \in FsPaths : RenameFileCall(from, to)

SpecFS == InitFS /\ [][NextFS]_vars

\* ------------------------------------------------------------------ claims

\* C1: for every DAG, timestamps and pair of commits, getCommonParents
\* returns exactly the best common ancestors of the two commits.
C1_ReturnsBestCommonAncestors ==
    wpc = "done" => SeqToSet(res) = BestCommonAncestors(commits, wOld, wNew)

\* the last call was Merge and it returned CommitNeeded or Conflicted
MergeCompleted ==
    ret.op = "Merge" /\ ret.err \in {"ErrMergeCommitNeeded", "ErrMergeWithConflicts"}

\* HEAD was an ancestor of the target when the last Merge was called
WasFastForward == ret.op = "Merge" /\ pre.head \in Ancestors(commits, ret.target)

\* every write of kind later in the log of the last Merge comes after a write
\* of kind first
LogBefore(first, later) ==
    \A i \in 1..Len(log) : log[i] = later => \E j \in 1..(i - 1) : log[j] = first

\* C2: in every non-fast-forward merge, also one that builds a virtual
\* ancestor, MERGE_HEAD is written before any conflict-marker file and
\* ORIG_HEAD is written before the first mutation of the index.
C2_RefsWrittenFirst ==
    (ret.op = "Merge" /\ ~WasFastForward) =>
        LogBefore("MERGE_HEAD", "marker") /\ LogBefore("ORIG_HEAD", "index")

\* C3: AbortMerge after a merge that returned CommitNeeded or Conflicted
\* leaves the index as it was before the merge, removes MERGE_HEAD, ORIG_HEAD
\* and MERGE_MSG, and empties the blob cache.
C3_AbortCompleteness ==
    [][(inMerge.valid /\ ret'.op = "AbortMerge") =>
          /\ idx' = inMerge.idx
          /\ mergeHead' = NoRef
          /\ origHead' = NoRef
          /\ mergeMsg' = <<>>
          /\ blobs' = <<>>]_vars

\* a conflicted merge has been aborted
C3_Witness ==
    /\ ret.op = "AbortMerge" /\ ret.err = NoErr /\ ret.target # NoRef
    /\ idx = EntriesOfTree(commits[ret.target].tree) /\ idx # {}
    /\ mergeHead = NoRef /\ blobs = <<>>

\* C4: a Merge called while MERGE_HEAD exists is rejected with
\* ErrMergeInProgress and changes none of HEAD, index, worktree, MERGE_HEAD,
\* ORIG_HEAD and MERGE_MSG, whatever HEAD and the target are.
C4_InProgressRejected ==
    (ret.op = "Merge" /\ pre.mergeHead # NoRef) =>
        /\ ret.err = "ErrMergeInProgress"
        /\ head = pre.head /\ idx = pre.idx /\ wt = pre.wt
        /\ mergeHead = pre.mergeHead /\ origHead = pre.origHead /\ mergeMsg = pre.mergeMsg

\* a path of the worktree that the index does not hold with the same content
UnstagedNonDelete(ix, w) ==
    \E q \in DOMAIN w : ~\E e \in ix : e.name = q /\ e.hash = w[q]

\* the index differed from HEAD, or the worktree from the index by more than
\* deletions, when the last Merge was called
WasDirty ==
    \/ pre.idx # EntriesOfTree(commits[pre.head].tree)
    \/ UnstagedNonDelete(pre.idx, pre.wt)

\* a Merge that returned ErrHasUncommittedFiles has changed nothing
UncommittedFrame ==
    (ret.op = "Merge" /\ ret.err = "ErrHasUncommittedFiles") =>
        /\ idx = pre.idx /\ wt = pre.wt
        /\ mergeHead = pre.mergeHead /\ origHead = pre.origHead /\ mergeMsg = pre.mergeMsg

\* C5 as stated: every non-fast-forward Merge called with staged changes or
\* unstaged changes other than deletions returns ErrHasUncommittedFiles, and
\* a Merge that returns it has modified nothing.
C5_UncommittedRefused ==
    /\ (ret.op = "Merge" /\ ~WasFastForward /\ WasDirty) => ret.err = "ErrHasUncommittedFiles"
    /\ UncommittedFrame

\* C5 amended: a non-fast-forward Merge called with no MERGE_HEAD and with
\* staged changes or unstaged changes other than deletions returns
\* ErrHasUncommittedFiles, and a Merge that returns it has modified nothing.
C5_UncommittedRefusedNoMergeHead ==
    /\ (ret.op = "Merge" /\ ~WasFastForward /\ pre.mergeHead = NoRef /\ WasDirty) =>
           ret.err = "ErrHasUncommittedFiles"
    /\ UncommittedFrame

\* a merge was refused because of an edited worktree file
C5_Witness ==
    /\ ret.op = "Merge" /\ ret.err = "ErrHasUncommittedFiles"
    /\ pre.mergeHead = NoRef /\ UnstagedNonDelete(pre.idx, pre.wt)

\* C6: when HEAD is an ancestor of the target, Merge sets HEAD to the target,
\* hard-resets index and worktree to it, returns no error and creates none of
\* MERGE_HEAD, ORIG_HEAD, MERGE_MSG.
C6_FastForward ==
    WasFastForward =>
        /\ ret.err = NoErr
        /\ head = ret.target
        /\ idx = EntriesOfTree(commits[ret.target].tree)
        /\ wt = commits[ret.target].tree
        /\ pre.mergeHead = NoRef => mergeHead = NoRef
        /\ pre.origHead = NoRef => origHead = NoRef
        /\ pre.mergeMsg = <<>> => mergeMsg = <<>>

\* HEAD has moved forward to a commit with another tree
C6_Witness ==
    /\ WasFastForward /\ ret.ff /\ head # pre.head /\ idx # pre.idx
    /\ mergeHead = NoRef /\ origHead = NoRef /\ mergeMsg = <<>>

\* C7: after a non-fast-forward Merge returned CommitNeeded or Conflicted,
\* MERGE_HEAD is the target commit, ORIG_HEAD is the HEAD of before the merge,
\* MERGE_MSG exists and HEAD is unchanged.
C7_MergeRefs ==
    MergeCompleted =>
        /\ mergeHead = ret.target
        /\ origHead = pre.head
        /\ mergeMsg # <<>>
        /\ head = pre.head

\* a merge has completed and left the two references
C7_Witness ==
    /\ MergeCompleted /\ ~WasFastForward
    /\ mergeHead = topic /\ origHead = head /\ mergeHead # origHead

\* C8: a non-fast-forward merge returns Conflicted exactly when some path of
\* the merge result has a conflicting diff type, CommitNeeded otherwise, and
\* a completed non-fast-forward merge never returns nil.
C8_ConflictedIffConflictType ==
    /\ MergeCompleted =>
          (ret.err = "ErrMergeWithConflicts"
              <=> \E q \in DOMAIN lastRes : lastRes[q].diffType \in ConflictTypes)
    /\ (ret.op = "Merge" /\ ~WasFastForward) => ret.err # NoErr

\* a merge returned Conflicted for a file deleted in HEAD and modified in theirs
C8_Witness ==
    /\ ret.op = "Merge" /\ ret.err = "ErrMergeWithConflicts"
    /\ \E q \in DOMAIN lastRes : lastRes[q].diffType = mergeDiffDeletedModified

\* the entries of a path whose stage is not Merged
Unmerged(ix, q) == {e \in ix : e.name = q /\ e.stage # Merged}

\* C9: after a merge that returned CommitNeeded every index entry has stage
\* Merged, after one that returned Conflicted some path has two or more
\* entries of a stage other than Merged, and ConflictEntries returns exactly
\* the paths that have an entry of a stage other than Merged.
C9_IndexInvariant ==
    /\ (ret.op = "Merge" /\ ret.err = "ErrMergeCommitNeeded") =>
           \A e \in idx : e.stage = Merged
    /\ (ret.op = "Merge" /\ ret.err = "ErrMergeWithConflicts") =>
           \E q \in Paths : Cardinality(Unmerged(idx, q)) >= 2
    /\ ret.op = "ConflictEntries" =>
           /\ DOMAIN ret.conf = {q \in Paths : Unmerged(idx, q) # {}}
           /\ \A q \in DOMAIN ret.conf : ret.conf[q] = Unmerged(idx, q)

\* ConflictEntries has returned the three entries of a conflicting path
C9_Witness ==
    /\ ret.op = "ConflictEntries"
    /\ \E q \in DOMAIN ret.conf : Cardinality(ret.conf[q]) = 3

\* C10: Commit is refused with ErrHasUnmergedFiles whenever an index entry
\* has a stage other than Merged, and a refused commit leaves HEAD,
\* MERGE_HEAD, ORIG_HEAD, MERGE_MSG, the index and the blob cache unchanged.
C10_CommitRefused ==
    [][(ret'.op = "Commit" /\ \E e \in idx : e.stage # Merged) =>
          /\ ret'.err = "ErrHasUnmergedFiles"
          /\ UNCHANGED <<head, mergeHead, origHead, mergeMsg, idx, blobs>>]_vars

\* a commit was refused while the merge is in progress
C10_Witness ==
    /\ ret.op = "Commit" /\ ret.err = "ErrHasUnmergedFiles"
    /\ mergeHead # NoRef /\ \E e \in idx : e.stage # Merged

\* C11: a successful Commit made while MERGE_HEAD exists creates a commit whose
\* parents are HEAD and MERGE_HEAD in that order and leaves MERGE_HEAD,
\* MERGE_MSG and ORIG_HEAD absent and the blob cache empty; a Merge is
\* rejected as InProgress only when MERGE_HEAD existed at its call.
C11_MergeCommit ==
    /\ [][(ret'.op = "Commit" /\ ret'.err = NoErr /\ mergeHead # NoRef) =>
            /\ head' = Len(commits) + 1
            /\ commits'[head'].parents = <<head, mergeHead>>
            /\ mergeHead' = NoRef /\ mergeMsg' = <<>> /\ origHead' = NoRef
            /\ blobs' = <<>>]_vars
    /\ []((ret.op = "Merge" /\ ret.err = "ErrMergeInProgress") => pre.mergeHead # NoRef)

\* a Merge that ran after a merge commit was made has not been rejected
C11_Witness ==
    /\ ret.op = "Merge" /\ ret.err # "ErrMergeInProgress" /\ ~ret.ff
    /\ Len(commits[pre.head].parents) = 2
    /\ pre.head > 3 /\ commits[pre.head].parents[2] = topic

\* path q is in the conflict set of the result of the last Merge
OuterConflict(q) == q \in DOMAIN lastRes /\ lastRes[q].diffType \in ConflictTypes

\* HEAD and the target held the same content for path q, or both none
SameAtTips(q) ==
    LET o == commits[pre.head].tree
        t == commits[ret.target].tree
    IN IF q \in DOMAIN o THEN q \in DOMAIN t /\ o[q] = t[q] ELSE q \notin DOMAIN t

\* C12: a path that conflicted while the virtual ancestor was built is in the
\* conflict set of the outer result only through the outer three-way merge
\* (never when both tips agree on it); when it is not in that set it has no
\* index entry of a stage other than Merged after the merge, and when no path
\* is in that set the merge returns CommitNeeded, not Conflicted.
C12_InnerConflictsStayInside ==
    MergeCompleted =>
        \A q \in lastInner :
            /\ SameAtTips(q) => ~OuterConflict(q)
            /\ ~OuterConflict(q) => Unmerged(idx, q) = {}
            /\ (\A x \in Paths : ~OuterConflict(x)) => ret.err = "ErrMergeCommitNeeded"

\* a merge whose virtual ancestor had a conflict on f returned CommitNeeded
C12_Witness ==
    /\ ret.op = "Merge" /\ ret.err = "ErrMergeCommitNeeded"
    /\ "f" \in lastInner /\ ~OuterConflict("f")
    /\ Len(commits) = 5

\* in every generated history, two commits without a common ancestor give an
\* empty getCommonParents result
NoAncestorEmptyResult ==
    \A d \in Dags(MaxCommits) : \A a, b \in 1..MaxCommits :
        CommonAncestors(d, a, b) = {} => getCommonParents(d, a, b) = <<>>

\* the last call was a Merge of two commits without a common ancestor
MergedUnrelated ==
    ret.op = "Merge" /\ CommonAncestors(commits, pre.head, ret.target) = {}

\* MERGE_HEAD and ORIG_HEAD were not written, index and worktree are as before
NoCommonParentFrame ==
    /\ mergeHead = NoRef /\ origHead = NoRef
    /\ "MERGE_HEAD" \notin SeqToSet(log) /\ "ORIG_HEAD" \notin SeqToSet(log)
    /\ idx = pre.idx /\ wt = pre.wt

C14_Symmetric ==
    wpc = "done" => SeqToSet(res) = SeqToSet(getCommonParents(commits, wNew, wOld))

\* C15: when y is x or an ancestor of x, getCommonParents(x, y) returns
\* exactly the one commit y.
C15_AncestorIsTheBase ==
    (wpc = "done" /\ wNew \in Ancestors(commits, wOld)) => res = <<wNew>>

\* C16: on every generated (finite, acyclic) history, for every pair of start
\* commits and every timestamps, the loop of getCommonParents reaches a queue
\* without an entry that lacks the Stale flag and returns.
C16_WalkTerminates ==
    (wpc = "walking") ~> (wpc = "done" /\ ~interesting(prQ))

\* a walk has returned with Stale entries left in the queue
C16_Witness ==
    wpc = "done" /\ prQ # <<>> /\ res # <<>>

\* the text of the line an op carries: md.a[prevX] (md.b[prevY]) when the
\* index is inside the file, the zero fileLine otherwise
OpLineA(a, op) == IF op.lineA >= 0 /\ op.lineA < Len(a) THEN a[op.lineA + 1] ELSE ""
OpLineB(b, op) == IF op.lineB >= 0 /\ op.lineB < Len(b) THEN b[op.lineB + 1] ELSE ""

\* the ops applied to a. Diff returns them as Backtrack emits them, last
\* edit first, so they are applied from the end of a towards its start: cur
\* lines of a are still to be consumed, out is the tail of the result built
\* so far. Equal keeps the a-line under the cursor, Delete drops it, Insert
\* puts in the op's b-line. ok is FALSE when an op does not fit the cursor.
RECURSIVE ApplyOps(_, _, _, _, _, _)
ApplyOps(a, b, ops, i, cur, out) ==
    IF i > Len(ops) THEN [ok |-> cur = 0, out |-> out]
    ELSE IF ops[i].diffType = fileDiffIns
    THEN ApplyOps(a, b, ops, i + 1, cur, <<OpLineB(b, ops[i])>> \o out)
    ELSE IF cur = 0 \/ ops[i].lineA # cur - 1 \/ OpLineA(a, ops[i]) # a[cur]
    THEN [ok |-> FALSE, out |-> out]
    ELSE IF ops[i].diffType = fileDiffDel
    THEN ApplyOps(a, b, ops, i + 1, cur - 1, out)
    ELSE IF OpLineB(b, ops[i]) # a[cur] THEN [ok |-> FALSE, out |-> out]
    ELSE ApplyOps(a, b, ops, i + 1, cur - 1, <<a[cur]>> \o out)

\* Diff(fA, fB) returned ops that turn fA into fB
DiffApplies ==
    /\ ~fOut.panic
    /\ ApplyOps(fA, fB, fOut.diff, 1, Len(fA), <<>>) = [ok |-> TRUE, out |-> fB]

\* C17: for every pair of line sequences a and b, Diff(a, b) returns edit ops
\* that, applied to a, yield exactly b.
C17_DifferCorrect ==
    fpc = "Diff" => DiffApplies

\* the same for every pair of line sequences that are not both empty
C17_CorrectUnlessBothEmpty ==
    (fpc = "Diff" /\ (fA # <<>> \/ fB # <<>>)) => DiffApplies

\* length of a longest common subsequence of the first i lines of a and the
\* first j lines of b
RECURSIVE Lcs(_, _, _, _)
Lcs(a, b, i, j) ==
    IF i = 0 \/ j = 0 THEN 0
    ELSE IF a[i] = b[j] THEN 1 + Lcs(a, b, i - 1, j - 1)
    ELSE IF Lcs(a, b, i - 1, j) >= Lcs(a, b, i, j - 1) THEN Lcs(a, b, i - 1, j)
    ELSE Lcs(a, b, i, j - 1)

\* the fewest insertions plus deletions that turn a into b
EditDistance(a, b) == Len(a) + Len(b) - 2 * Lcs(a, b, Len(a), Len(b))

NonEqualOps(ops) == Cardinality({i \in 1..Len(ops) : ops[i].diffType # fileDiffEql})

\* Diff(fA, fB) returned a shortest edit script, and the trace of
\* GetShortestPath has one entry per edit distance 0..D
DiffMinimal ==
    /\ ~fOut.panic
    /\ NonEqualOps(fOut.diff) = EditDistance(fA, fB)
    /\ ~GetShortestPath(fA, fB).panic
    /\ Len(GetShortestPath(fA, fB).trace) - 1 = EditDistance(fA, fB)

\* C18: for every a and b the number of non-Equal ops of Diff(a, b) is the
\* edit distance D of a and b, the length of the trace of GetShortestPath
\* minus one.
C18_DifferMinimal ==
    fpc = "Diff" => DiffMinimal

\* the same for every pair of line sequences that are not both empty
C18_MinimalUnlessBothEmpty ==
    (fpc = "Diff" /\ (fA # <<>> \/ fB # <<>>)) => DiffMinimal

\* C19: Diff completes for every pair of finite line sequences, one or both
\* of them empty included, without an out-of-range access, and for two empty
\* inputs it returns an empty op list.
C19_DifferCannotFail ==
    fpc = "Diff" =>
        /\ ~fOut.panic
        /\ (fA = <<>> /\ fB = <<>>) => fOut.diff = <<>>

Delims == {delimStart, delimMiddle, delimEnd}

\* the merger wrote exactly the lines of side, with zero conflicts and no markers
WroteSide(side) ==
    /\ ~fOut.panic
    /\ ~fOut.hang
    /\ fOut.out = side
    /\ fOut.conflicts = 0
    /\ \A i \in 1..Len(fOut.out) : fOut.out[i] \notin Delims

\* C20: merging (base, ours = base, theirs = y) writes exactly the lines of
\* y, and merging (base, ours = x, theirs = base) writes exactly the lines of
\* x, each with zero unresolved conflicts and no conflict markers.
C20_TrivialSide ==
    fpc = "Merge" =>
        /\ fA = fBase => WroteSide(fB)
        /\ fB = fBase => WroteSide(fA)

\* C21: merging (base, ours = x, theirs = x) writes exactly the lines of x
\* with zero unresolved conflicts and no conflict markers.
C21_IdenticalSides ==
    (fpc = "Merge" /\ fA = fB) => WroteSide(fA)

\* the conflict hunks of a written file, in order, each as its ours lines and
\* its theirs lines; ok is FALSE when the markers are not in the order
\* start, middle, end.  where: 0 outside a hunk, 1 after the start marker,
\* 2 after the middle marker
RECURSIVE ParseHunks(_, _, _, _, _, _)
ParseHunks(out, i, where, ours, theirs, acc) ==
    IF i > Len(out) THEN [ok |-> where = 0, hunks |-> acc]
    ELSE IF out[i] = delimStart
    THEN IF where = 0 THEN ParseHunks(out, i + 1, 1, <<>>, <<>>, acc)
         ELSE [ok |-> FALSE, hunks |-> acc]
    ELSE IF out[i] = delimMiddle
    THEN IF where = 1 THEN ParseHunks(out, i + 1, 2, ours, <<>>, acc)
         ELSE [ok |-> FALSE, hunks |-> acc]
    ELSE IF out[i] = delimEnd
    THEN IF where = 2
         THEN ParseHunks(out, i + 1, 0, <<>>, <<>>,
                         Append(acc, [ours |-> ours, theirs |-> theirs]))
         ELSE [ok |-> FALSE, hunks |-> acc]
    ELSE IF where = 1 THEN ParseHunks(out, i + 1, 1, Append(ours, out[i]), theirs, acc)
    ELSE IF where = 2 THEN ParseHunks(out, i + 1, 2, ours, Append(theirs, out[i]), acc)
    ELSE ParseHunks(out, i + 1, 0, ours, theirs, acc)

\* the lines of base, ours and theirs in the range of a chunk
ChunkBase(c) == Block(fBase, c.from.baseIndex, c.to.baseIndex)
ChunkOurs(c) == Block(fA, c.from.aIndex, c.to.aIndex)
ChunkTheirs(c) == Block(fB, c.from.bIndex, c.to.bIndex)

\* neither side's range equals the base range and the two ranges differ
ChunkConflicts(c) ==
    /\ ChunkOurs(c) # ChunkBase(c)
    /\ ChunkTheirs(c) # ChunkBase(c)
    /\ ChunkOurs(c) # ChunkTheirs(c)

\* the sides of the chunks in which ChunkConflicts holds, in order
RECURSIVE ConflictChunks(_, _)
ConflictChunks(chunks, i) ==
    IF i > Len(chunks) THEN <<>>
    ELSE IF ChunkConflicts(chunks[i])
    THEN <<[ours |-> ChunkOurs(chunks[i]), theirs |-> ChunkTheirs(chunks[i])]>>
             \o ConflictChunks(chunks, i + 1)
    ELSE ConflictChunks(chunks, i + 1)

HunksAsChunks(hunks) ==
    /\ hunks.ok
    /\ fOut.conflicts = Len(hunks.hunks)
    /\ hunks.hunks = ConflictChunks(fOut.chunks, 1)

\* C22: the conflict count the file merger returns is the number of
\* conflict hunks in its output; every hunk is the start marker, the chunk's
\* ours lines, the middle marker, the chunk's theirs lines, the end marker;
\* and the hunks are those of the chunks in which neither side equals the
\* base range and the two sides differ.
C22_ConflictHunks ==
    (fpc = "Merge" /\ ~fOut.panic /\ ~fOut.hang) =>
        HunksAsChunks(ParseHunks(fOut.out, 1, 0, <<>>, <<>>, <<>>))

\* a merge returned a conflict hunk with lines on both sides
C22_Witness ==
    /\ fpc = "Merge"
    /\ ~fOut.panic
    /\ fOut.conflicts >= 1
    /\ \E i \in 1..Len(fOut.chunks) :
           /\ ChunkConflicts(fOut.chunks[i])
           /\ ChunkOurs(fOut.chunks[i]) # <<>>
           /\ ChunkTheirs(fOut.chunks[i]) # <<>>

\* base line i (1-based) is unchanged on both sides, top changes only the
\* lines of base before it and bottom only the lines after it, and the line
\* occurs nowhere else in base, top or bottom
TopOf(top, i) == SubSeq(top, 1, Len(top) - (Len(fBase) - i) - 1)
BottomOf(bottom, i) == SubSeq(bottom, i + 1, Len(bottom))

DisjointAt(top, bottom, i) ==
    /\ Len(top) >= Len(fBase) - i + 1
    /\ Len(bottom) >= i
    /\ SubSeq(top, Len(top) - (Len(fBase) - i), Len(top)) = SubSeq(fBase, i, Len(fBase))
    /\ SubSeq(bottom, 1, i) = SubSeq(fBase, 1, i)
    /\ TopOf(top, i) # SubSeq(fBase, 1, i - 1)
    /\ BottomOf(bottom, i) # SubSeq(fBase, i + 1, Len(fBase))
    /\ fBase[i] \notin SeqToSet(SubSeq(fBase, 1, i - 1)) \cup SeqToSet(SubSeq(fBase, i + 1, Len(fBase)))
    /\ fBase[i] \notin SeqToSet(TopOf(top, i)) \cup SeqToSet(BottomOf(bottom, i))

\* the merge wrote top's change, the unchanged line and bottom's change
MergedDisjoint(top, bottom, i) ==
    /\ ~fOut.panic
    /\ ~fOut.hang
    /\ fOut.conflicts = 0
    /\ fOut.out = TopOf(top, i) \o <<fBase[i]>> \o BottomOf(bottom, i)

C24_AbortAfterInterruptedMerge ==
    [][(/\ ret.op = "Merge"
        /\ ret.err = ErrCollaborator
        /\ pre.mergeHead = NoRef
        /\ ret'.op = "AbortMerge") =>
          /\ ret'.err = NoErr
          /\ idx' = pre.idx
          /\ mergeHead' = NoRef
          /\ origHead' = NoRef
          /\ mergeMsg' = <<>>]_vars

\* C25: a Merge in which a storage, tree-diff or filesystem call fails (a
\* tree diff of the uncommitted-changes guard included) returns that error.
C25_CollaboratorErrorsAbort ==
    [][faults' = faults + 1 => ret'.err = ErrCollaborator]_vars

\* C26: no 'temp_*' file remains in the worktree directory after a Merge in
\* which a write, a close or a rename of the temporary file failed.
C26_NoTempLeft ==
    temps = 0

\* the last call was a completed merge of two commits with the single best
\* common ancestor b, of a checkout that had no uncommitted change
MergedFrom(b) ==
    /\ MergeCompleted
    /\ BestCommonAncestors(commits, pre.head, ret.target) = {b}
    /\ pre.wt = commits[pre.head].tree

\* path q as the trees of base b, ours and theirs hold it
InBase(b, q) == IF q \in DOMAIN commits[b].tree THEN commits[b].tree[q] ELSE Absent
InOurs(q) == IF q \in DOMAIN commits[pre.head].tree THEN commits[pre.head].tree[q] ELSE Absent
InTheirs(q) ==
    IF q \in DOMAIN commits[ret.target].tree THEN commits[ret.target].tree[q] ELSE Absent

DeletedModifiedPath(b, q) ==
    /\ InBase(b, q) # Absent
    /\ InOurs(q) = Absent
    /\ InTheirs(q) \notin {Absent, InBase(b, q)}

\* C27: a path deleted on ours and modified on theirs is classified
\* DeletedModified, Merge returns Conflicted, the worktree holds theirs'
\* content of the path, and the index holds the base blob at the ancestor
\* stage and theirs' blob at their stage, with no entry for ours.
C27_DeleteModify ==
    \A b \in 1..Len(commits), q \in Paths :
        (MergedFrom(b) /\ DeletedModifiedPath(b, q)) =>
            /\ q \in DOMAIN lastRes
            /\ lastRes[q].diffType = mergeDiffDeletedModified
            /\ ret.err = "ErrMergeWithConflicts"
            /\ q \in DOMAIN wt
            /\ wt[q] = InTheirs(q)
            /\ EntriesOf(idx, q) =
                   {[name |-> q, hash |-> InBase(b, q), stage |-> AncestorMode],
                    [name |-> q, hash |-> InTheirs(q), stage |-> TheirMode]}

\* the same without the worktree: the path stays absent from it
C27_DeleteModifyNoFile ==
    \A b \in 1..Len(commits), q \in Paths :
        (MergedFrom(b) /\ DeletedModifiedPath(b, q)) =>
            /\ q \in DOMAIN lastRes
            /\ lastRes[q].diffType = mergeDiffDeletedModified
            /\ ret.err = "ErrMergeWithConflicts"
            /\ q \notin DOMAIN wt
            /\ EntriesOf(idx, q) =
                   {[name |-> q, hash |-> InBase(b, q), stage |-> AncestorMode],
                    [name |-> q, hash |-> InTheirs(q), stage |-> TheirMode]}

ModifiedDeletedPath(b, q) ==
    /\ InBase(b, q) # Absent
    /\ InOurs(q) \notin {Absent, InBase(b, q)}
    /\ InTheirs(q) = Absent

\* C28: a path modified on ours and deleted on theirs is classified
\* ModifiedDeleted, Merge returns Conflicted, the worktree keeps ours'
\* content, the index holds the ancestor and ours blobs and no entry for
\* theirs, and the summary has a line beginning "(modify/delete)".
C28_ModifyDelete ==
    \A b \in 1..Len(commits), q \in Paths :
        (MergedFrom(b) /\ ModifiedDeletedPath(b, q)) =>
            /\ q \in DOMAIN lastRes
            /\ lastRes[q].diffType = mergeDiffModifiedDeleted
            /\ ret.err = "ErrMergeWithConflicts"
            /\ q \in DOMAIN wt
            /\ wt[q] = InOurs(q)
            /\ EntriesOf(idx, q) =
                   {[name |-> q, hash |-> InBase(b, q), stage |-> AncestorMode],
                    [name |-> q, hash |-> InOurs(q), stage |-> OurMode]}
            /\ \E i \in 1..Len(ret.msg) :
                   /\ Len(ret.msg[i]) >= 2
                   /\ ret.msg[i][1] = "(modify/delete):"
                   /\ ret.msg[i][2] = q

\* a merge of a file modified in HEAD and deleted in topic has returned
C28_Witness ==
    /\ MergeCompleted
    /\ \E b \in 1..Len(commits) : MergedFrom(b) /\ ModifiedDeletedPath(b, "f")
    /\ "f" \in DOMAIN wt

BothDeletedPath(b, q) ==
    /\ InBase(b, q) # Absent
    /\ InOurs(q) = Absent
    /\ InTheirs(q) = Absent

\* the merge left path q out of index and worktree, as they were, and did
\* not report it as a conflict
DeletionKept(q) ==
    /\ EntriesOf(idx, q) = {}
    /\ EntriesOf(pre.idx, q) = {}
    /\ q \notin DOMAIN wt
    /\ q \notin DOMAIN pre.wt
    /\ lastRes[q].diffType \notin ConflictTypes
    /\ \A i \in 1..Len(ret.msg) : \A j \in 1..Len(ret.msg[i]) : ret.msg[i][j] # q
    /\ \A i \in 1..Len(mergeMsg) : \A j \in 1..Len(mergeMsg[i]) : mergeMsg[i][j] # q

\* C29: a path removed on both sides has diff type BothDeleted in the
\* per-path merging result, changes neither index nor worktree and is not
\* counted as a conflict.
C29_BothDeleted ==
    \A b \in 1..Len(commits), q \in Paths :
        (MergedFrom(b) /\ BothDeletedPath(b, q)) =>
            /\ q \in DOMAIN lastRes
            /\ lastRes[q].diffType = mergeDiffBothDeleted
            /\ DeletionKept(q)

\* the same with the diff type the code assigns, NoConflict
C29_BothDeletedNoConflict ==
    \A b \in 1..Len(commits), q \in Paths :
        (MergedFrom(b) /\ BothDeletedPath(b, q)) =>
            /\ q \in DOMAIN lastRes
            /\ lastRes[q].diffType = mergeDiffNoConflict
            /\ DeletionKept(q)

BothAddedPath(b, q) ==
    /\ InBase(b, q) = Absent
    /\ InOurs(q) # Absent
    /\ InTheirs(q) # Absent

\* C30: a path absent in base and added on both sides is classified
\* BothAdded and is a conflict, also when both sides added the same content:
\* the worktree file is the start marker, ours' lines, the middle marker,
\* theirs' lines, the end marker; the index holds ours' and theirs' blobs at
\* their stages and no ancestor entry; Merge returns Conflicted.
C30_BothAdded ==
    \A b \in 1..Len(commits), q \in Paths :
        (MergedFrom(b) /\ BothAddedPath(b, q)) =>
            /\ q \in DOMAIN lastRes
            /\ lastRes[q].diffType = mergeDiffBothAdded
            /\ ret.err = "ErrMergeWithConflicts"
            /\ q \in DOMAIN wt
            /\ wt[q] = <<delimStart>> \o InOurs(q) \o <<delimMiddle>> \o InTheirs(q)
                           \o <<delimEnd>>
            /\ EntriesOf(idx, q) =
                   {[name |-> q, hash |-> InOurs(q), stage |-> OurMode],
                    [name |-> q, hash |-> InTheirs(q), stage |-> TheirMode]}

\* a merge of a file that both sides added with the same content has returned
C30_Witness ==
    /\ MergeCompleted
    /\ \E b \in 1..Len(commits) :
           MergedFrom(b) /\ BothAddedPath(b, "f") /\ InOurs("f") = InTheirs("f")
    /\ "f" \in DOMAIN wt
    /\ wt["f"][1] = delimStart

\* a merge of a file that both sides added with different content has returned
C30_WitnessDifferent ==
    /\ MergeCompleted
    /\ \E b \in 1..Len(commits) :
           MergedFrom(b) /\ BothAddedPath(b, "f") /\ InOurs("f") # InTheirs("f")

\* path q changed on theirs only, or on ours only, since base b
TheirsOnlyPath(b, q) == InOurs(q) = InBase(b, q) /\ InTheirs(q) # InBase(b, q)
OursOnlyPath(b, q) == InTheirs(q) = InBase(b, q) /\ InOurs(q) # InBase(b, q)

\* C31: a path changed only on theirs is copied into the worktree and
\* staged (added, modified) or removed from worktree and index (deleted);
\* a path changed only on ours keeps its index entries and worktree file;
\* the diff type is NoConflict in every such case.
C31_OneSided ==
    \A b \in 1..Len(commits), q \in Paths :
        MergedFrom(b) =>
            /\ (TheirsOnlyPath(b, q) /\ InTheirs(q) # Absent) =>
                   /\ q \in DOMAIN lastRes
                   /\ lastRes[q].diffType = mergeDiffNoConflict
                   /\ q \in DOMAIN wt /\ wt[q] = InTheirs(q)
                   /\ EntriesOf(idx, q) =
                          {[name |-> q, hash |-> InTheirs(q), stage |-> Merged]}
            /\ (TheirsOnlyPath(b, q) /\ InTheirs(q) = Absent) =>
                   /\ q \in DOMAIN lastRes
                   /\ lastRes[q].diffType = mergeDiffNoConflict
                   /\ q \notin DOMAIN wt
                   /\ EntriesOf(idx, q) = {}
            /\ OursOnlyPath(b, q) =>
                   /\ q \in DOMAIN lastRes
                   /\ lastRes[q].diffType = mergeDiffNoConflict
                   /\ EntriesOf(idx, q) = EntriesOf(pre.idx, q)
                   /\ (q \in DOMAIN wt) = (q \in DOMAIN pre.wt)
                   /\ (q \in DOMAIN wt => wt[q] = pre.wt[q])

\* a merge has copied a file that only theirs added, next to a conflict
C31_Witness ==
    /\ ret.err = "ErrMergeWithConflicts"
    /\ \E b \in 1..Len(commits) :
           /\ MergedFrom(b)
           /\ TheirsOnlyPath(b, "g") /\ InBase(b, "g") = Absent
    /\ "g" \in DOMAIN wt

\* a merge has removed a file that only theirs deleted
C31_WitnessDeleted ==
    /\ \E b \in 1..Len(commits) :
           MergedFrom(b) /\ TheirsOnlyPath(b, "f") /\ InTheirs("f") = Absent
    /\ "f" \notin DOMAIN wt

\* a merge has left alone a file that only ours modified
C31_WitnessOurs ==
    \E b \in 1..Len(commits) :
        MergedFrom(b) /\ OursOnlyPath(b, "f") /\ InOurs("f") # Absent

\* path q was modified on both sides since base b and the three-way merge
\* of its three versions has no conflict
CleanBothModifiedPath(b, q) ==
    /\ InBase(b, q) # Absent /\ InOurs(q) # Absent /\ InTheirs(q) # Absent
    /\ InOurs(q) # InBase(b, q) /\ InTheirs(q) # InBase(b, q)
    /\ q \in DOMAIN lastRes
    /\ lastRes[q].diffType = mergeDiffBothModifiedWithoutConflicts

\* the merged content of path q
MergedContent(b, q) == writeChunks(InBase(b, q), InOurs(q), InTheirs(q)).out

\* C32: after a merge, a path modified on both sides and merged without
\* conflicts has exactly one index entry, at stage Merged, with the hash of
\* the merged content, whatever else the merge processed and in whatever
\* order.
C32_CleanMergeStaged ==
    \A b \in 1..Len(commits), q \in Paths :
        (MergedFrom(b) /\ CleanBothModifiedPath(b, q)) =>
            EntriesOf(idx, q) =
                {[name |-> q, hash |-> MergedContent(b, q), stage |-> Merged]}

\* the same when no other path of the merge got conflict entries
C32_CleanMergeStagedAlone ==
    \A b \in 1..Len(commits), q \in Paths :
        (/\ MergedFrom(b) /\ CleanBothModifiedPath(b, q)
         /\ \A o \in DOMAIN lastRes : lastRes[o].diffType \notin ConflictTypes) =>
            EntriesOf(idx, q) =
                {[name |-> q, hash |-> MergedContent(b, q), stage |-> Merged]}

\* C33: traversal flags only accumulate during the merge-base walk: a
\* commit in the queue carries every flag it carried on an earlier visit,
\* whether it was still queued or already popped when it was pushed again.
C33_FlagsAccumulate ==
    \A i \in 1..Len(prQ) : seen[prQ[i].value] \subseteq prQ[i].flags

\* the same for a commit that stays in the queue: a push never removes a
\* flag from a queued entry
C33_FlagsAccumulateWhileQueued ==
    [][\A i \in 1..Len(prQ) :
           (\E j \in 1..Len(prQ') : prQ'[j].value = prQ[i].value) =>
               prQ[i].flags \subseteq FlagsIn(prQ', prQ[i].value)]_vars

\* the list r holds no commit twice
NoDuplicates(r) == \A i, j \in 1..Len(r) : r[i] = r[j] => i = j

\* no commit of the list r is an ancestor of another commit of r
NoAncestorPairs(r) ==
    \A i, j \in 1..Len(r) : i # j => r[i] \notin Ancestors(commits, r[j])

\* C34: getCommonParents emits each commit at most once, and no ancestor
\* of an emitted commit is reported.
C34_EmitsOnce ==
    NoDuplicates(res) /\ NoAncestorPairs(res)

\* the part about duplicates alone
C34_NoCommitTwice ==
    NoDuplicates(res)

\* no commit carries an author timestamp earlier than a parent's
TimeOrdered ==
    \A i \in 1..Len(commits) : \A k \in 1..Len(commits[i].parents) :
        commits[commits[i].parents[k]].when <= commits[i].when

\* the same on histories whose timestamps never decrease from parent to
\* child
C34_EmitsOnceOrdered ==
    TimeOrdered => (NoDuplicates(res) /\ NoAncestorPairs(res))

\* a walk has returned a commit that both arguments descend from
C34_Witness ==
    /\ wpc = "done"
    /\ Len(res) = 1
    /\ wOld # wNew
    /\ res[1] \notin {wOld, wNew}

\* the computeParent calls made for the createVirtualParent of call i of
\* the list cl: the later calls one level deeper, up to the next call that
\* is not deeper than call i
InnerCalls(cl, i) ==
    {j \in (i + 1)..Len(cl) :
        /\ cl[j].depth = cl[i].depth + 1
        /\ \A m \in (i + 1)..j : cl[m].depth > cl[i].depth}

\* commit c is an ancestor of a or of b, and is neither
NearerRoots(c, a, b) ==
    /\ c \in Ancestors(commits, a) \cup Ancestors(commits, b)
    /\ c \notin {a, b}

\* C35: in a Merge that returned CommitNeeded or Conflicted, a computeParent
\* call that found k > 1 merge bases made k-1 recursive merges, each with a
\* merge-base computation on commits strictly nearer the roots than its
\* own, and the nesting depth of the calls is below the number of commits.
C35_SynthesisTerminates ==
    MergeCompleted =>
        \A i \in 1..Len(lastCalls) :
            /\ lastCalls[i].depth < Len(commits)
            /\ Len(lastCalls[i].bases) > 1 =>
                   /\ Cardinality(InnerCalls(lastCalls, i)) = Len(lastCalls[i].bases) - 1
                   /\ \A j \in InnerCalls(lastCalls, i) :
                          /\ NearerRoots(lastCalls[j].old, lastCalls[i].old, lastCalls[i].new)
                          /\ NearerRoots(lastCalls[j].new, lastCalls[i].old, lastCalls[i].new)

\* a merge has built a virtual ancestor inside the building of a virtual
\* ancestor
C35_Witness ==
    /\ MergeCompleted
    /\ \E i \in 1..Len(lastCalls) : lastCalls[i].depth = 2

\* every commit a walk returned is an ancestor of both arguments, and is
\* neither of them when the walk returned several
C35_BasesNearerRoots ==
    wpc = "done" =>
        \A i \in 1..Len(res) :
            /\ res[i] \in CommonAncestors(commits, wOld, wNew)
            /\ Len(res) > 1 => res[i] \notin {wOld, wNew}

\* the list l holds at most one blob per stage, every one under path p
OnePerStage(l, p) ==
    /\ \A i, j \in 1..Len(l) : l[i].stage = l[j].stage => i = j
    /\ \A i \in 1..Len(l) : l[i].path = p

\* cache new is cache old after a call for (p, s) with blob b: the other
\* paths are as before; a cached (p, s) has its blob replaced and the other
\* stages of p are as before; a new stage of p is one appended entry
CacheUpdated(old, new, p, b, s) ==
    /\ DOMAIN new = DOMAIN old \cup {p}
    /\ \A q \in DOMAIN old \ {p} : new[q] = old[q]
    /\ IF p \in DOMAIN old /\ \E i \in 1..Len(old[p]) : old[p][i].stage = s
       THEN /\ Len(new[p]) = Len(old[p])
            /\ \A i \in 1..Len(old[p]) :
                   new[p][i] = IF old[p][i].stage = s THEN [old[p][i] EXCEPT !.blob = b]
                               ELSE old[p][i]
       ELSE new[p] = (IF p \in DOMAIN old THEN old[p] ELSE <<>>)
                         \o <<[path |-> p, stage |-> s, blob |-> b]>>

\* C36: after any sequence of addOrUpdateBlobToCache calls the cache holds
\* at most one blob per (path, stage), and a further call for any path,
\* blob (nil too) and stage replaces the blob of a cached (path, stage) or
\* appends one entry, leaving the other stages and paths unchanged.
C36_OneBlobPerStage ==
    /\ \A p \in DOMAIN blobs : OnePerStage(blobs[p], p)
    /\ \A p \in Paths, b \in CacheBlobs, s \in CacheStages :
           Bind(addOrUpdateBlobToCache(blobs, p, b, s), LAMBDA new :
               CacheUpdated(blobs, new, p, b, s))

\* the cache holds every stage of one path, a nil blob among them, and
\* another path
C36_Witness ==
    /\ DOMAIN blobs = Paths
    /\ Len(blobs["f"]) = Cardinality(CacheStages)
    /\ \E i \in 1..Len(blobs["f"]) : blobs["f"][i].blob = NilBlob
    /\ \E i \in 1..Len(blobs["f"]) : blobs["f"][i].blob = Top1

\* cursor x is nowhere behind cursor y
CursorLeq(x, y) ==
    x.baseIndex <= y.baseIndex /\ x.aIndex <= y.aIndex /\ x.bIndex <= y.bIndex

\* the chunks cl cover base, a and b: the first starts at line 0 of each,
\* each starts where the one before ended, no chunk ends before it starts,
\* every chunk but the last ends beyond its start in one file at least, and
\* the last ends at the end of each file
ChunksCover(cl, base, a, b) ==
    /\ cl # <<>>
    /\ cl[1].from = [baseIndex |-> 0, aIndex |-> 0, bIndex |-> 0]
    /\ \A i \in 1..Len(cl) : CursorLeq(cl[i].from, cl[i].to)
    /\ \A i \in 1..(Len(cl) - 1) : cl[i].to = cl[i + 1].from /\ cl[i].to # cl[i].from
    /\ cl[Len(cl)].to = FinalTo(base, a, b)

\* C37: a run of the three-way chunker ends, and its chunks, the final one
\* included, cover every line index of base, ours and theirs once and in
\* order, with cursors that never decrease and a strict advance in every
\* chunk before the final one.
C37_ChunksCover ==
    (fpc = "Merge" /\ ~fOut.panic) =>
        /\ ~fOut.hang
        /\ ChunksCover(fOut.chunks, fBase, fA, fB)

\* a run of the chunker has emitted three chunks or more, one of them
\* advancing in ours alone
C37_Witness ==
    /\ fpc = "Merge" /\ ~fOut.panic /\ ~fOut.hang
    /\ Len(fOut.chunks) >= 3
    /\ \E i \in 1..(Len(fOut.chunks) - 1) :
           /\ fOut.chunks[i].to.baseIndex = fOut.chunks[i].from.baseIndex
           /\ fOut.chunks[i].to.aIndex > fOut.chunks[i].from.aIndex

\* C38: when staged changes or unstaged changes other than deletions exist
\* as Merge is called, the index and every worktree file are after the call
\* what they were before it, on the fast-forward path too.
C38_UncommittedWorkKept ==
    (ret.op = "Merge" /\ WasDirty) => (idx = pre.idx /\ wt = pre.wt)

\* the same for the calls in which HEAD was not an ancestor of the target
C38_UncommittedWorkKeptNoFastForward ==
    (ret.op = "Merge" /\ WasDirty /\ ~WasFastForward) =>
        (idx = pre.idx /\ wt = pre.wt)

\* path p lies beneath directory path d
Beneath(p, d) == Len(p) > Len(d) /\ SubSeq(p, 1, Len(d)) = d

\* the id of the directory of path p, 0 when p is directly below the root
ParentOf(p) == storageGetFile(fs, PathDir(p)).id

\* the row rows held under path p, before the call
RowBefore(p) == CHOOSE r \in fsRet.before : r.path = p

\* the last call was a RenameFile(from, to) that returned nil, of a
\* directory (of a file) held under from
RenamedDir ==
    /\ fsRet.op = "RenameFile" /\ fsRet.err = NoErr
    /\ RowBefore(fsRet.from).isDir

RenamedFile ==
    /\ fsRet.op = "RenameFile" /\ fsRet.err = NoErr
    /\ ~RowBefore(fsRet.from).isDir

\* entry e, which was beneath from, is now found beneath to and not under
\* its old path
MovedBeneath(e) ==
    /\ storageGetFile(fs, fsRet.to \o SubSeq(e.path, Len(fsRet.from) + 1, Len(e.path))).id
           = e.id
    /\ storageGetFile(fs, e.path).id # e.id

\* the row of id is held under path to, with the directory of to as parent
HeldAt(id, to) ==
    /\ storageGetFile(fs, to).id = id
    /\ storageGetFile(fs, to).parentID = ParentOf(to)

\* every row of rows has the row held under the directory of its path as
\* parent, and that row is a directory: what NewFile and createParent
\* build when no call fails half-way
Consistent(rows) ==
    \A r \in rows :
        IF Len(r.path) = 1 THEN r.parentID = 0
        ELSE \E d \in rows :
                 d.path = PathDir(r.path) /\ d.isDir /\ r.parentID = d.id

\* the last call renamed, within a consistent table, from to a path that
\* is neither from nor beneath from
PlainRename ==
    /\ Consistent(fsRet.before)
    /\ fsRet.from # fsRet.to
    /\ ~Beneath(fsRet.to, fsRet.from)

\* C39: after RenameFile(from, to) of a directory every entry that was
\* beneath from, at any depth, is found under the corresponding path
\* beneath to and not under its old path, and the parent of the renamed
\* directory is the directory of to; after RenameFile of a file the file
\* is found at to, with the parent of to, and is not found at from.
C39_RenameMoves ==
    /\ (RenamedDir /\ PlainRename) =>
           /\ \A e \in fsRet.before : Beneath(e.path, fsRet.from) => MovedBeneath(e)
           /\ HeldAt(RowBefore(fsRet.from).id, fsRet.to)
    /\ (RenamedFile /\ PlainRename) =>
           /\ HeldAt(RowBefore(fsRet.from).id, fsRet.to)
           /\ storageGetFile(fs, fsRet.from) = NilFile

\* the part of C39 about files
C39_RenameMovesFile ==
    (RenamedFile /\ PlainRename) =>
        /\ HeldAt(RowBefore(fsRet.from).id, fsRet.to)
        /\ storageGetFile(fs, fsRet.from) = NilFile

\* the part of C39 about the entries at any depth beneath a directory
C39_RenameMovesDeep ==
    (RenamedDir /\ PlainRename) =>
        \A e \in fsRet.before : Beneath(e.path, fsRet.from) => MovedBeneath(e)

\* the part of C39 about the parent of a renamed directory
C39_RenameMovesDirParent ==
    (RenamedDir /\ PlainRename) => HeldAt(RowBefore(fsRet.from).id, fsRet.to)

\* the part of C39 about directories, for the entries directly beneath
\* from
C39_RenameMovesChildren ==
    (RenamedDir /\ PlainRename) =>
        \A e \in fsRet.before :
            (Beneath(e.path, fsRet.from) /\ Len(e.path) = Len(fsRet.from) + 1) =>
                MovedBeneath(e)

\* the part of C39 about the parent of a directory renamed within the
\* directory that holds it
C39_RenameMovesDirInPlace ==
    (RenamedDir /\ PlainRename /\ PathDir(fsRet.from) = PathDir(fsRet.to)) =>
        HeldAt(RowBefore(fsRet.from).id, fsRet.to)

====
